---- MODULE Spec2Model ----
(***************************************************************************)
(* Persona-driven document intelligence: the Section Resolver of           *)
(* src/src/analyze_document.py and the classifiers and scorers of          *)
(* src/src/persona.py.                                                     *)
(*                                                                         *)
(* Python strings are TLA+ strings (Len, \o and SubSeq work on them).      *)
(* Python floats are exact rationals <<numerator, denominator>> in lowest   *)
(* terms with a positive denominator (rounding of binary floating point    *)
(* is not modelled).                                                       *)
(* Every operation of the two classes is a pure function of its arguments  *)
(* (the objects hold only constant tables), so one behaviour of the model  *)
(* is one call: the action draws the arguments, runs the whole function    *)
(* and records the arguments, the locals of interest and the result.       *)
(***************************************************************************)
EXTENDS Integers, Sequences, FiniteSets, TLC

VARIABLES
    pc,               \* "idle", or the name of the call that has returned
    candidates,       \* _process_detected_sections: the candidate list as it was passed in
    sections,         \* _process_detected_sections: the same list after the call (its dicts are updated in place)
    filename,         \* _process_detected_sections: the document file name
    unique_sections   \* _process_detected_sections: the returned list

VARIABLES
    role_description,   \* _classify_user_role / process_with_persona: the role description
    task_description,   \* _classify_user_task / process_with_persona: the task description
    detected_role,      \* the Role Category returned by _classify_user_role
    detected_task       \* the Job Category returned by _classify_user_task

VARIABLES
    relevance_metric,   \* _determine_importance_level: the relevance score
    observation_list,   \* _determine_importance_level: the insights
    concept_list,       \* _determine_importance_level: the key concepts
    importance_level    \* _determine_importance_level: the returned priority

VARIABLES
    doc_analysis,       \* process_with_persona: the DocumentAnalysis argument as it was passed in
    section_data,       \* process_with_persona: the section dicts of doc_analysis after the call
    persona_analysis    \* process_with_persona: the returned PersonaAnalysis

VARIABLES
    page_contents,      \* _detect_sections: the pages argument
    pdf_file,           \* analyze_document: the file at file_path
    analysis,           \* analyze_document: the returned DocumentAnalysis
    config,             \* process_input_spec: the loaded input spec, each document with its file
    doc_index,          \* process_input_spec: the position of the loop over config["documents"]
    output_data,        \* process_input_spec: output_data
    output_file         \* challenge1b_output.json: <<>> until it is written

resolverVars == <<candidates, sections, filename, unique_sections>>
classifierVars == <<role_description, task_description, detected_role, detected_task>>
priorityVars == <<relevance_metric, observation_list, concept_list, importance_level>>
personaVars == <<doc_analysis, section_data, persona_analysis>>
driverVars == <<page_contents, pdf_file, analysis, config, doc_index, output_data, output_file>>
vars == <<pc, resolverVars, classifierVars, priorityVars, personaVars, driverVars>>

-----------------------------------------------------------------------------
(* Strings *)

Char(s, i) == SubSeq(s, i, i)

RECURSIVE Rep(_, _)
Rep(s, n) == IF n = 0 THEN "" ELSE s \o Rep(s, n - 1)

\* str.split(): the whitespace characters of the modelled alphabet
Whitespace == {" ", "\n", "\t"}

\* len(s.split()): the number of maximal runs of non-whitespace characters,
\* counted by their first characters
SplitCount(s) ==
    Cardinality({i \in 1..Len(s) :
                    /\ Char(s, i) \notin Whitespace
                    /\ (i = 1 \/ Char(s, i - 1) \in Whitespace)})

\* keyword in text (str.__contains__)
Contains(keyword, text) ==
    \E i \in 1..(Len(text) - Len(keyword) + 1) : SubSeq(text, i, i + Len(keyword) - 1) = keyword

\* str.lower() on one character
LowerChar(c) ==
    CASE c = "A" -> "a" [] c = "B" -> "b" [] c = "C" -> "c" [] c = "D" -> "d"
      [] c = "E" -> "e" [] c = "F" -> "f" [] c = "G" -> "g" [] c = "H" -> "h"
      [] c = "I" -> "i" [] c = "J" -> "j" [] c = "K" -> "k" [] c = "L" -> "l"
      [] c = "M" -> "m" [] c = "N" -> "n" [] c = "O" -> "o" [] c = "P" -> "p"
      [] c = "Q" -> "q" [] c = "R" -> "r" [] c = "S" -> "s" [] c = "T" -> "t"
      [] c = "U" -> "u" [] c = "V" -> "v" [] c = "W" -> "w" [] c = "X" -> "x"
      [] c = "Y" -> "y" [] c = "Z" -> "z"
      [] OTHER -> c

\* str.lower(), character by character (halved to keep the evaluation depth logarithmic)
RECURSIVE lower(_)
lower(s) ==
    IF Len(s) = 0 THEN ""
    ELSE IF Len(s) = 1 THEN LowerChar(s)
    ELSE LET m == Len(s) \div 2
         IN lower(SubSeq(s, 1, m)) \o lower(SubSeq(s, m + 1, Len(s)))

\* the characters the regular expression class \w matches
WordChars ==
    {"a", "b", "c", "d", "e", "f", "g", "h", "i", "j", "k", "l", "m", "n", "o", "p", "q", "r", "s", "t", "u", "v", "w", "x", "y", "z"} \cup
    {"A", "B", "C", "D", "E", "F", "G", "H", "I", "J", "K", "L", "M", "N", "O", "P", "Q", "R", "S", "T", "U", "V", "W", "X", "Y", "Z"} \cup
    {"0", "1", "2", "3", "4", "5", "6", "7", "8", "9", "_"}

IsWordChar(s, i) == i >= 1 /\ i <= Len(s) /\ Char(s, i) \in WordChars

\* re.findall(r'\b\w+\b', s) on s[lo..hi]: the maximal runs of word characters,
\* left to right.  The range is halved; a run that crosses the middle is the
\* last run of the left half joined to the first run of the right half.
RECURSIVE WordRuns(_, _, _)
WordRuns(s, lo, hi) ==
    IF lo > hi THEN <<>>
    ELSE IF lo = hi THEN (IF IsWordChar(s, lo) THEN <<Char(s, lo)>> ELSE <<>>)
    ELSE LET mid == (lo + hi) \div 2
             left == WordRuns(s, lo, mid)
             right == WordRuns(s, mid + 1, hi)
         IN IF IsWordChar(s, mid) /\ IsWordChar(s, mid + 1)
            THEN SubSeq(left, 1, Len(left) - 1)
                    \o <<left[Len(left)] \o right[1]>> \o Tail(right)
            ELSE left \o right

findall_words(s) == WordRuns(s, 1, Len(s))

\* re.findall(r'\b\w{4,}\b', s): the maximal runs of at least 4 word characters
findall_words4(s) == SelectSeq(findall_words(s), LAMBDA w : Len(w) >= 4)

\* set(list)
ToSet(seq) == {seq[i] : i \in 1..Len(seq)}

\* sum(1 for x in seq if P(x))
Count(seq, P(_)) == Cardinality({i \in 1..Len(seq) : P(seq[i])})

\* the regular expression classes [A-Z], [a-z] and \d
UpperChars ==
    {"A", "B", "C", "D", "E", "F", "G", "H", "I", "J", "K", "L", "M", "N", "O", "P", "Q", "R", "S", "T", "U", "V", "W", "X", "Y", "Z"}
LowerChars ==
    {"a", "b", "c", "d", "e", "f", "g", "h", "i", "j", "k", "l", "m", "n", "o", "p", "q", "r", "s", "t", "u", "v", "w", "x", "y", "z"}
DigitChars == {"0", "1", "2", "3", "4", "5", "6", "7", "8", "9"}

\* the first index in lo..hi at which sep starts in s, 0 if there is none
\* (the range is halved to keep the evaluation depth logarithmic)
RECURSIVE FirstIn(_, _, _, _)
FirstIn(s, sep, lo, hi) ==
    IF lo > hi THEN 0
    ELSE IF lo = hi THEN (IF SubSeq(s, lo, lo + Len(sep) - 1) = sep THEN lo ELSE 0)
    ELSE LET mid == (lo + hi) \div 2
             left == FirstIn(s, sep, lo, mid)
         IN IF left # 0 THEN left ELSE FirstIn(s, sep, mid + 1, hi)

\* s.find(sep) + 1
find(s, sep) == FirstIn(s, sep, 1, Len(s) - Len(sep) + 1)

\* s.split(sep): the pieces between the occurrences of sep, taken left to right
\* without overlap
RECURSIVE split(_, _)
split(s, sep) ==
    LET p == find(s, sep)
    IN IF p = 0 THEN <<s>>
       ELSE <<SubSeq(s, 1, p - 1)>> \o split(SubSeq(s, p + Len(sep), Len(s)), sep)

\* the index of the first character at or after i that is not in chars
RECURSIVE SkipForward(_, _, _)
SkipForward(s, chars, i) ==
    IF i > Len(s) \/ Char(s, i) \notin chars THEN i ELSE SkipForward(s, chars, i + 1)

\* the index of the last character at or before i that is not in chars
RECURSIVE SkipBackward(_, _, _)
SkipBackward(s, chars, i) ==
    IF i < 1 \/ Char(s, i) \notin chars THEN i ELSE SkipBackward(s, chars, i - 1)

\* s.strip()
strip(s) == SubSeq(s, SkipForward(s, Whitespace, 1), SkipBackward(s, Whitespace, Len(s)))

\* s.rstrip(':')
rstrip_colon(s) == SubSeq(s, 1, SkipBackward(s, {":"}, Len(s)))

\* every character of s[lo..hi] is in chars
AllIn(s, lo, hi, chars) == \A i \in lo..hi : Char(s, i) \in chars

\* s[:n]
Head_n(s, n) == SubSeq(s, 1, IF Len(s) < n THEN Len(s) ELSE n)

\* " ".join(words)
RECURSIVE Join(_)
Join(words) ==
    IF Len(words) = 0 THEN ""
    ELSE IF Len(words) = 1 THEN words[1]
    ELSE words[1] \o " " \o Join(Tail(words))

-----------------------------------------------------------------------------
(* Floats as exact rationals *)

RECURSIVE GCD(_, _)
GCD(a, b) == IF b = 0 THEN a ELSE GCD(b, a % b)

\* n/d in lowest terms (n >= 0, d > 0), so that equal values are equal pairs
Rat(n, d) == LET g == GCD(n, d) IN <<n \div g, d \div g>>
RatLE(a, b) == a[1] * b[2] <= b[1] * a[2]
RatEq(a, b) == a[1] * b[2] = b[1] * a[2]
RatAdd(a, b) == Rat(a[1] * b[2] + b[1] * a[2], a[2] * b[2])
RatMul(a, b) == Rat(a[1] * b[1], a[2] * b[2])
RatMin(a, b) == IF RatLE(a, b) THEN a ELSE b
\* a float that is a whole number of tenths, as that number of tenths
Tenths(a) == (a[1] * 10) \div a[2]

-----------------------------------------------------------------------------
(* DocumentAnalyzer: the Section Resolver *)

max_sections == 50

\* dict.get(key, default)
Get(d, key, default) == IF key \in DOMAIN d THEN d[key] ELSE default

_get_base_confidence_score == Rat(5, 10)

_get_method_score(method) ==
    CASE method = "header" -> Rat(3, 10)
      [] method = "paragraph" -> Rat(2, 10)
      [] method = "list" -> Rat(1, 10)
      [] OTHER -> Rat(0, 10)

\* variant: the content bonus given from 100 characters on
_get_content_quality_score_from_100(content, title) ==
    RatAdd(IF Len(content) >= 100 THEN Rat(1, 10) ELSE Rat(0, 10),
           IF Len(title) > 10 THEN Rat(1, 10) ELSE Rat(0, 10))

_get_content_quality_score(content, title) ==
    RatAdd(IF Len(content) > 100 THEN Rat(1, 10) ELSE Rat(0, 10),
           IF Len(title) > 10 THEN Rat(1, 10) ELSE Rat(0, 10))

_calculate_confidence(section) ==
    LET content == Get(section, "content", "")
        title == Get(section, "section_title", "")
        method == Get(section, "detection_method", "")
        score == RatAdd(RatAdd(_get_base_confidence_score, _get_method_score(method)),
                        _get_content_quality_score(content, title))
    IN RatMin(score, Rat(1, 1))

\* variant: the duplicate test left out
_is_valid_section_no_dedup(section, seen_titles) ==
    LET title == Get(section, "section_title", "")
    IN title # "" /\ Len(title) > 3

_is_valid_section(section, seen_titles) ==
    LET title == Get(section, "section_title", "")
    IN title # "" /\ title \notin seen_titles /\ Len(title) > 3

\* variant: the 0-based loop index used as it is
section_id_of_zero_based(fname, i) == fname \o "_section_" \o ToString(i - 1)

\* f"{filename}_section_{i+1}", i here being the 1-based position
section_id_of(fname, i) == fname \o "_section_" \o ToString(i)

\* One iteration of the loop of _process_detected_sections, on candidate i
\* (1-based, so i is the code's i+1).  st = [secs: the candidate list, whose
\* kept dicts are updated in place, unique: unique_sections, seen: seen_titles].
ResolveStep(st, fname, i) ==
    LET section == st.secs[i]
    IN IF _is_valid_section(section, st.seen)
       THEN LET updated ==
                    [section_id |-> section_id_of(fname, i),
                     word_count |-> SplitCount(Get(section, "content", "")),
                     confidence_score |-> _calculate_confidence(section)] @@ section
            IN [secs |-> [st.secs EXCEPT ![i] = updated],
                unique |-> Append(st.unique, updated),
                seen |-> st.seen \cup {section["section_title"]}]
       ELSE st

\* The loop over candidates lo..hi in order, the state threaded left to right.
\* Halving the range and reading st first keep the evaluation depth logarithmic.
RECURSIVE ResolveRange(_, _, _, _)
ResolveRange(st, fname, lo, hi) ==
    IF st.secs = <<>> \/ lo > hi THEN st
    ELSE IF lo = hi THEN ResolveStep(st, fname, lo)
    ELSE LET mid == (lo + hi) \div 2
             left == ResolveRange(st, fname, lo, mid)
         IN ResolveRange(left, fname, mid + 1, hi)

Resolved(secs, fname) ==
    ResolveRange([secs |-> secs, unique |-> <<>>, seen |-> {}], fname, 1, Len(secs))

\* unique_sections[:self.max_sections]
Prefix(s, n) == SubSeq(s, 1, IF Len(s) < n THEN Len(s) ELSE n)

\* variant: the list is returned whole
_process_detected_sections_no_cap(secs, fname) == Resolved(secs, fname).unique

_process_detected_sections(secs, fname) == Prefix(Resolved(secs, fname).unique, max_sections)

-----------------------------------------------------------------------------
(* DocumentAnalyzer: the Header Detector *)
(* A regular expression is modelled by what re.search or re.match returns   *)
(* on one line (a string without "\n"): <<>> for no match, <<group(1)>>     *)
(* for a match.  None is <<>> and a returned value v is <<v>>.              *)

min_section_length == 30
max_section_length == 2000
max_lookahead_lines == 5

\* r'^([A-Z][A-Z\s]{5,40})$'
AllCapsPattern(line) ==
    IF /\ Len(line) >= 6 /\ Len(line) <= 41
       /\ Char(line, 1) \in UpperChars
       /\ AllIn(line, 2, Len(line), UpperChars \cup Whitespace)
    THEN <<line>> ELSE <<>>

\* r'^(\d+\.?\s+[A-Z][^.!?]*?)(?:\n|$)'
NumberedPattern(line) ==
    LET d == SkipForward(line, DigitChars, 1)
        e == IF d <= Len(line) /\ Char(line, d) = "." THEN d + 1 ELSE d
        f == SkipForward(line, Whitespace, e)
    IN IF /\ d > 1 /\ f > e /\ f <= Len(line)
          /\ Char(line, f) \in UpperChars
          /\ \A i \in (f + 1)..Len(line) : Char(line, i) \notin {".", "!", "?"}
       THEN <<line>> ELSE <<>>

\* the index of the colon that ends a run of capitalised words starting at i,
\* 0 if there is none
RECURSIVE TitleCaseColon(_, _)
TitleCaseColon(line, i) ==
    IF i > Len(line) \/ Char(line, i) \notin UpperChars THEN 0
    ELSE LET j == SkipForward(line, LowerChars, i + 1)
             k == SkipForward(line, Whitespace, j)
         IN IF j = i + 1 \/ j > Len(line) THEN 0
            ELSE IF Char(line, j) = ":" THEN j
            ELSE IF k = j THEN 0
            ELSE TitleCaseColon(line, k)

\* r'^([A-Z][a-z]+(?:\s+[A-Z][a-z]+)*):'
TitleCasePattern(line) ==
    LET c == TitleCaseColon(line, 1)
    IN IF c = 0 THEN <<>> ELSE <<SubSeq(line, 1, c - 1)>>

\* r'(?:Chapter|Section)\s+\d+[:\-\s]*(.+)' matches at p: the keyword, white
\* space, a digit and at least one more character
ChapterAt(line, p) ==
    /\ p + 6 <= Len(line)
    /\ SubSeq(line, p, p + 6) \in {"Chapter", "Section"}
    /\ LET w == SkipForward(line, Whitespace, p + 7)
       IN w > p + 7 /\ w < Len(line) /\ Char(line, w) \in DigitChars

\* group(1) of the match at p: what is left after the digits and the
\* separators, both taken greedily; when nothing is left the last character
\* is given back to (.+)
ChapterGroup(line, p) ==
    LET w == SkipForward(line, Whitespace, p + 7)
        q == SkipForward(line, DigitChars, w)
        r == SkipForward(line, {":", "-"} \cup Whitespace, q)
    IN IF r <= Len(line) THEN SubSeq(line, r, Len(line))
       ELSE SubSeq(line, Len(line), Len(line))

\* re.search returns the leftmost match
ChapterPattern(line) ==
    LET starts == {p \in 1..Len(line) : ChapterAt(line, p)}
    IN IF starts = {} THEN <<>>
       ELSE <<ChapterGroup(line, CHOOSE p \in starts : \A o \in starts : p <= o)>>

\* self._get_header_patterns(), each applied to a line
HeaderPatterns(line) ==
    <<AllCapsPattern(line), NumberedPattern(line), TitleCasePattern(line), ChapterPattern(line)>>

_is_valid_line(line) == Len(line) >= 5

\* the title of the first pattern that matches with 5 < len(title) < 80
RECURSIVE MatchFrom(_, _)
MatchFrom(matches, k) ==
    IF k > Len(matches) THEN <<>>
    ELSE LET title == rstrip_colon(strip(matches[k][1]))
         IN IF matches[k] # <<>> /\ 5 < Len(title) /\ Len(title) < 80 THEN <<title>>
            ELSE MatchFrom(matches, k + 1)

_match_header_patterns(line) == MatchFrom(HeaderPatterns(line), 1)

\* header_line.strip() in line.strip()
_is_header_line(line, header_line) == Contains(strip(header_line), strip(line))

\* re.match(r'^[A-Z][A-Z\s]{5,}$', line) or re.match(r'^\d+\.?\s+[A-Z]', line)
LooksLikeHeader(line) ==
    \/ /\ Len(line) >= 6
       /\ Char(line, 1) \in UpperChars
       /\ AllIn(line, 2, Len(line), UpperChars \cup Whitespace)
    \/ LET d == SkipForward(line, DigitChars, 1)
           e == IF d <= Len(line) /\ Char(line, d) = "." THEN d + 1 ELSE d
           f == SkipForward(line, Whitespace, e)
       IN d > 1 /\ f > e /\ f <= Len(line) /\ Char(line, f) \in UpperChars

_should_stop_content_extraction(line, content_lines) ==
    LET stripped == strip(line)
    IN IF stripped = "" THEN FALSE
       ELSE IF LooksLikeHeader(stripped) THEN TRUE
       ELSE Len(Join(content_lines)) > max_section_length

\* the loop of _extract_content_after_header from line i on: the value of
\* content_lines when the loop ends
RECURSIVE ContentLoop(_, _, _, _, _)
ContentLoop(lines, header_line, i, found_header, content_lines) ==
    IF i > Len(lines) THEN content_lines
    ELSE IF _is_header_line(lines[i], header_line)
         THEN ContentLoop(lines, header_line, i + 1, TRUE, content_lines)
    ELSE IF ~found_header
         THEN ContentLoop(lines, header_line, i + 1, FALSE, content_lines)
    ELSE IF _should_stop_content_extraction(lines[i], content_lines) THEN content_lines
    ELSE ContentLoop(lines, header_line, i + 1, TRUE, Append(content_lines, strip(lines[i])))

_extract_content_after_header(page_text, header_line) ==
    Join(ContentLoop(split(page_text, "\n"), header_line, 1, FALSE, <<>>))

\* None when the content is empty
_create_header_section(title, page_text, page_num) ==
    LET content == _extract_content_after_header(page_text, title)
    IN IF content # ""
       THEN <<[section_title |-> title, page_number |-> page_num,
               content |-> content, detection_method |-> "header"]>>
       ELSE <<>>

\* the sections of the lines from i on, in line order
RECURSIVE HeaderLoop(_, _, _)
HeaderLoop(page_info, lines, i) ==
    IF i > Len(lines) THEN <<>>
    ELSE LET line == strip(lines[i])
             header_match == IF _is_valid_line(line) THEN _match_header_patterns(line) ELSE <<>>
             section == IF header_match # <<>>
                        THEN _create_header_section(header_match[1], page_info.text,
                                                    page_info.page_number)
                        ELSE <<>>
         IN section \o HeaderLoop(page_info, lines, i + 1)

_find_headers_in_page(page_info) == HeaderLoop(page_info, split(page_info.text, "\n"), 1)

\* the sections of the pages from k on, in page order
RECURSIVE ForEachPage(_, _, _)
ForEachPage(Detector(_), pages, k) ==
    IF k > Len(pages) THEN <<>>
    ELSE Detector(pages[k]) \o ForEachPage(Detector, pages, k + 1)

_detect_by_headers(text, pages) == ForEachPage(_find_headers_in_page, pages, 1)

-----------------------------------------------------------------------------
(* DocumentAnalyzer: the Paragraph Detector *)

\* variant: the upper limit is not tested
_is_valid_paragraph_length_no_max(paragraph) == min_section_length <= Len(paragraph)

_is_valid_paragraph_length(paragraph) ==
    min_section_length <= Len(paragraph) /\ Len(paragraph) <= max_section_length

\* first_sentence[:50] + "..." if len(first_sentence) > 50 else first_sentence
_generate_paragraph_title(paragraph) ==
    LET sentences == split(paragraph, ". ")
        first_sentence == sentences[1]
    IN IF Len(first_sentence) > 50 THEN Head_n(first_sentence, 50) \o "..." ELSE first_sentence

_create_paragraph_section(paragraph, page_num) ==
    [section_title |-> _generate_paragraph_title(paragraph), page_number |-> page_num,
     content |-> paragraph, detection_method |-> "paragraph"]

\* [p.strip() for p in page_text.split('\n\n') if p.strip()]
Paragraphs(page_text) ==
    LET pieces == split(page_text, "\n\n")
        stripped == [k \in 1..Len(pieces) |-> strip(pieces[k])]
    IN SelectSeq(stripped, LAMBDA para : para # "")

_extract_paragraph_sections(page_info) ==
    LET paragraphs == SelectSeq(Paragraphs(page_info.text), _is_valid_paragraph_length)
    IN [k \in 1..Len(paragraphs) |->
           _create_paragraph_section(paragraphs[k], page_info.page_number)]

_detect_by_paragraphs(text, pages) == ForEachPage(_extract_paragraph_sections, pages, 1)

-----------------------------------------------------------------------------
(* DocumentAnalyzer: the List Detector *)

\* the bullet characters of the modelled alphabet (ASCII: the code's class
\* [\•\-\*] without the bullet sign)
BulletChars == {"-", "*"}

\* re.match(r'^[\•\-\*]\s+.+', line) or re.match(r'^\d+[\.\)]\s+.+', line)
_is_list_item(line) ==
    \/ /\ Len(line) >= 3
       /\ Char(line, 1) \in BulletChars
       /\ Char(line, 2) \in Whitespace
    \/ LET d == SkipForward(line, DigitChars, 1)
       IN /\ d > 1 /\ d + 2 <= Len(line)
          /\ Char(line, d) \in {".", ")"}
          /\ Char(line, d + 1) \in Whitespace

\* self._is_list_item(line) or (line and not re.match(r'^[A-Z]', line))
_is_continuation_line(line) ==
    _is_list_item(line) \/ (line # "" /\ Char(line, 1) \notin UpperChars)

\* the loop of _gather_list_content over the lines j..last (1-based)
RECURSIVE GatherLoop(_, _, _, _)
GatherLoop(lines, j, last, content) ==
    IF j > last THEN content
    ELSE LET next_line == strip(lines[j])
         IN IF next_line = "" THEN GatherLoop(lines, j + 1, last, content)
            ELSE IF _is_continuation_line(next_line)
                 THEN GatherLoop(lines, j + 1, last,
                                 content \o (IF _is_list_item(next_line) THEN "\n" ELSE " ")
                                         \o next_line)
            ELSE content

\* variant: the loop runs to the last line of the page
_gather_list_content_to_page_end(lines, start_index) ==
    GatherLoop(lines, start_index + 1, Len(lines), strip(lines[start_index]))

\* start_index is 1-based: the code's range(start_index + 1,
\* min(len(lines), start_index + max_lookahead_lines + 1)) is the next
\* max_lookahead_lines lines
_gather_list_content(lines, start_index) ==
    LET last == IF Len(lines) < start_index + max_lookahead_lines
                THEN Len(lines) ELSE start_index + max_lookahead_lines
    IN GatherLoop(lines, start_index + 1, last, strip(lines[start_index]))

\* None when the content is not longer than min_section_length
_create_list_section(lines, start_index, page_num) ==
    LET line == strip(lines[start_index])
        title == IF Len(line) > 50 THEN Head_n(line, 50) \o "..." ELSE line
        content == _gather_list_content(lines, start_index)
    IN IF Len(content) > min_section_length
       THEN <<[section_title |-> title, page_number |-> page_num,
               content |-> content, detection_method |-> "list"]>>
       ELSE <<>>

RECURSIVE ListLoop(_, _, _)
ListLoop(page_info, lines, i) ==
    IF i > Len(lines) THEN <<>>
    ELSE (IF _is_list_item(strip(lines[i]))
          THEN _create_list_section(lines, i, page_info.page_number)
          ELSE <<>>) \o ListLoop(page_info, lines, i + 1)

_extract_list_sections(page_info) == ListLoop(page_info, split(page_info.text, "\n"), 1)

_detect_by_lines(text, pages) == ForEachPage(_extract_list_sections, pages, 1)

-----------------------------------------------------------------------------
(* DocumentAnalyzer: _detect_sections *)

\* the list sections has after the three extend calls
DetectedCandidates(text, pages) ==
    _detect_by_headers(text, pages) \o _detect_by_paragraphs(text, pages)
        \o _detect_by_lines(text, pages)

_detect_sections(text, fname, pages) ==
    _process_detected_sections(DetectedCandidates(text, pages), fname)

-----------------------------------------------------------------------------
(* DocumentAnalyzer: analyze_document *)
(* A PDF file is [path, state, texts]: state "ok" (fitz opens it and texts  *)
(* holds what get_text() returns for each page), "corrupt" (fitz.open       *)
(* raises) or "missing" (no such file: Path.exists() is false and fitz.open *)
(* raises).                                                                 *)

\* str(e) of the exception fitz.open raises
OpenError(file) ==
    IF file.state = "missing" THEN "no such file: " \o file.path
    ELSE "cannot open broken document"

\* the index after the last "/" of the path
RECURSIVE NameStart(_, _)
NameStart(path, i) == IF i < 1 \/ Char(path, i) = "/" THEN i + 1 ELSE NameStart(path, i - 1)

\* Path(file_path).name and os.path.basename(file_path)
PathName(path) == SubSeq(path, NameStart(path, Len(path)), Len(path))

\* full_text += page_text + "\n" for the pages from k on
RECURSIVE FullText(_, _)
FullText(texts, k) == IF k > Len(texts) THEN "" ELSE texts[k] \o "\n" \o FullText(texts, k + 1)

\* returns (full_text, page_contents)
_extract_pdf_content(texts) ==
    [full_text |-> FullText(texts, 1),
     page_contents |-> [k \in 1..Len(texts) |->
                           [page_number |-> k, text |-> strip(texts[k]),
                            char_count |-> Len(texts[k])]]]

_generate_metadata(path, pages, text, secs, now) ==
    [filename |-> PathName(path), total_pages |-> Len(pages), total_characters |-> Len(text),
     total_sections |-> Len(secs), processing_timestamp |-> now]

\* variant: the handler lets the exception go on
_create_error_response_reraise(path, error) == [raised |-> error]

_create_error_response(path, error) ==
    [metadata |-> [filename |-> PathName(path), error |-> error],
     full_text |-> "", pages |-> <<>>, sections |-> <<>>]

\* the returned dict; an exception that left the call would be [raised |-> str(e)]
analyze_document(file, now) ==
    IF file.state # "ok" THEN _create_error_response(file.path, OpenError(file))
    ELSE LET content == _extract_pdf_content(file.texts)
             secs == _detect_sections(content.full_text, PathName(file.path),
                                      content.page_contents)
         IN [metadata |-> _generate_metadata(file.path, content.page_contents,
                                             content.full_text, secs, now),
             full_text |-> content.full_text,
             pages |-> content.page_contents,
             sections |-> secs]

-----------------------------------------------------------------------------
(* src/main.py: the batch driver, and src/utils/parser.py *)

\* the pages with text, numbered from 1 as in the document; called only on a
\* file fitz opens (on another one fitz.open raises)
extract_text_from_pdf(file) ==
    SelectSeq([k \in 1..Len(file.texts) |-> [page_number |-> k, text |-> file.texts[k]]],
              LAMBDA page : strip(page.text) # "")

\* all_pages[:num_pages], num_pages = 3
extract_sample_pages(file) == Prefix(extract_text_from_pdf(file), 3)

\* the first non-empty line of the text, stripped
RECURSIVE FirstCleanLine(_, _)
FirstCleanLine(lines, i) ==
    IF i > Len(lines) THEN "Unknown Section"
    ELSE IF strip(lines[i]) # "" THEN strip(lines[i])
    ELSE FirstCleanLine(lines, i + 1)

extract_section_title_from_text(text) ==
    LET stripped == strip(text)
    IN FirstCleanLine(IF stripped = "" THEN <<>> ELSE split(stripped, "\n"), 1)

\* the loop of process_single_document over sample_pages[idx..]
RECURSIVE SamplePagesLoop(_, _, _, _)
SamplePagesLoop(out, path, sample_pages, idx) ==
    IF idx > Len(sample_pages) THEN out
    ELSE LET page == sample_pages[idx]
             extracted == [document |-> PathName(path),
                           section_title |-> extract_section_title_from_text(page.text),
                           importance_rank |-> idx,
                           page_number |-> page.page_number]
             analysed == [document |-> PathName(path),
                          refined_text |-> Head_n(page.text, 300),
                          page_number |-> page.page_number]
         IN SamplePagesLoop(
                [out EXCEPT !.extracted_sections = Append(@, extracted),
                            !.subsection_analysis = Append(@, analysed)],
                path, sample_pages, idx + 1)

\* process_single_document on output_data: [raised, output_data], raised
\* being "" when the call returns and str(e) when an exception leaves it
process_single_document(file, out) ==
    IF file.state = "missing" THEN [raised |-> "", output_data |-> out]
    ELSE IF file.state # "ok" THEN [raised |-> OpenError(file), output_data |-> out]
    ELSE LET sample_pages == extract_sample_pages(file)
             with_name == [out EXCEPT !.metadata.input_documents = Append(@, PathName(file.path))]
         IN [raised |-> "",
             output_data |-> SamplePagesLoop(with_name, file.path, sample_pages, 1)]

\* output_data as process_input_spec builds it before the loop
InitialOutputData(cfg, now) ==
    [metadata |-> [input_documents |-> <<>>, persona |-> cfg.persona,
                   job_to_be_done |-> cfg.job_to_be_done, processing_timestamp |-> now],
     extracted_sections |-> <<>>,
     subsection_analysis |-> <<>>]

-----------------------------------------------------------------------------
(* PersonaProcessor: keyword tables (dicts, in insertion order) *)

role_terms == <<
    [key |-> "researcher", terms |-> <<"research", "study", "analysis", "methodology", "data", "experiment",
        "hypothesis", "literature", "publication", "findings", "results", "conclusion">>],
    [key |-> "student", terms |-> <<"learn", "study", "understand", "concept", "theory", "practice",
        "example", "exercise", "exam", "assignment", "knowledge", "skill">>],
    [key |-> "analyst", terms |-> <<"analyze", "evaluate", "assess", "trend", "pattern", "metric",
        "performance", "comparison", "forecast", "strategy", "insight", "recommendation">>],
    [key |-> "teacher", terms |-> <<"teach", "explain", "instruction", "curriculum", "lesson", "education",
        "training", "guidance", "demonstration", "assessment", "learning", "development">>],
    [key |-> "manager", terms |-> <<"manage", "plan", "organize", "control", "strategy", "decision",
        "resource", "team", "process", "objective", "performance", "leadership">>],
    [key |-> "entrepreneur", terms |-> <<"business", "opportunity", "market", "innovation", "startup", "venture",
        "revenue", "growth", "investment", "competition", "strategy", "scalability">>] >>

task_terms == <<
    [key |-> "review", terms |-> <<"review", "summary", "overview",
        "evaluation", "assessment", "analysis">>],
    [key |-> "learn", terms |-> <<"learn", "understand", "study",
        "master", "practice", "acquire">>],
    [key |-> "analyze", terms |-> <<"analyze", "examine", "investigate",
        "evaluate", "assess", "compare">>],
    [key |-> "prepare", terms |-> <<"prepare", "plan", "organize",
        "design", "develop", "create">>],
    [key |-> "summarize", terms |-> <<"summarize", "condense", "extract",
        "highlight", "synthesize", "distill">>] >>

\* dict.get(key, []) on a keyword table
TermsOf(tbl, key) ==
    IF \E k \in 1..Len(tbl) : tbl[k].key = key
    THEN tbl[CHOOSE k \in 1..Len(tbl) : tbl[k].key = key].terms
    ELSE <<>>

\* x in list
InList(x, seq) == \E i \in 1..Len(seq) : seq[i] = x

\* any(term in text for term in terms)
AnyIn(terms, text) == \E i \in 1..Len(terms) : Contains(terms[i], text)

-----------------------------------------------------------------------------
(* PersonaProcessor: the Role Classifier and the Job Classifier *)

\* sum(1 for keyword in keyword_list if keyword in normalized)
KeywordScore(keyword_list, normalized) ==
    Cardinality({i \in 1..Len(keyword_list) : Contains(keyword_list[i], normalized)})

\* the scores dict built by the loop over tbl.items(): the entries with a
\* positive score, in table order
ScoresDict(tbl, normalized) ==
    SelectSeq([k \in 1..Len(tbl) |->
                  [key |-> tbl[k].key, score |-> KeywordScore(tbl[k].terms, normalized)]],
              LAMBDA e : e.score > 0)

\* max(scores, key=scores.get): scans the keys in insertion order and replaces
\* the best so far only by a strictly larger score
\* variant: an equal score replaces the best so far
RECURSIVE MaxKeyFrom_last_wins(_, _, _)
MaxKeyFrom_last_wins(scores, i, best) ==
    IF i > Len(scores) THEN scores[best].key
    ELSE MaxKeyFrom_last_wins(scores, i + 1,
                              IF scores[i].score >= scores[best].score THEN i ELSE best)

RECURSIVE MaxKeyFrom(_, _, _)
MaxKeyFrom(scores, i, best) ==
    IF i > Len(scores) THEN scores[best].key
    ELSE MaxKeyFrom(scores, i + 1, IF scores[i].score > scores[best].score THEN i ELSE best)

MaxKey(scores) == MaxKeyFrom(scores, 2, 1)

RoleFallback(normalized_role) ==
    IF AnyIn(<<"phd", "research", "scientist", "academic">>, normalized_role) THEN "researcher"
    ELSE IF AnyIn(<<"student", "undergraduate", "graduate">>, normalized_role) THEN "student"
    ELSE IF AnyIn(<<"analyst", "investment", "business">>, normalized_role) THEN "analyst"
    ELSE IF AnyIn(<<"teacher", "trainer", "instructor">>, normalized_role) THEN "teacher"
    ELSE IF AnyIn(<<"manager", "director", "executive">>, normalized_role) THEN "manager"
    ELSE IF AnyIn(<<"entrepreneur", "founder", "startup">>, normalized_role) THEN "entrepreneur"
    ELSE "general"

_classify_user_role(role_desc) ==
    LET normalized_role == lower(role_desc)
        role_scores == ScoresDict(role_terms, normalized_role)
    IN IF role_scores # <<>> THEN MaxKey(role_scores) ELSE RoleFallback(normalized_role)

\* variant: the description matched without lowercasing it
_classify_user_task_no_lower(task_desc) ==
    LET task_scores == ScoresDict(task_terms, task_desc)
    IN IF task_scores # <<>> THEN MaxKey(task_scores) ELSE "general"

_classify_user_task(task_desc) ==
    LET normalized_task == lower(task_desc)
        task_scores == ScoresDict(task_terms, normalized_task)
    IN IF task_scores # <<>> THEN MaxKey(task_scores) ELSE "general"

-----------------------------------------------------------------------------
(* PersonaProcessor: the Relevance Scorer *)

\* variant: the role and task weights exchanged
WeightedCombination_swapped(role_relevance, task_relevance, direct_relevance) ==
    RatAdd(RatAdd(RatMul(Rat(3, 10), role_relevance), RatMul(Rat(4, 10), task_relevance)),
           RatMul(Rat(3, 10), direct_relevance))

\* 0.4 * role_relevance + 0.3 * task_relevance + 0.3 * direct_relevance
WeightedCombination(role_relevance, task_relevance, direct_relevance) ==
    RatAdd(RatAdd(RatMul(Rat(4, 10), role_relevance), RatMul(Rat(3, 10), task_relevance)),
           RatMul(Rat(3, 10), direct_relevance))

\* variant: scaled but not capped
ScaleAndCap_no_cap(combined_score) == RatMul(combined_score, Rat(10, 1))

\* min(combined_score * 10, 1.0)
ScaleAndCap(combined_score) == RatMin(RatMul(combined_score, Rat(10, 1)), Rat(1, 1))

\* variant: a text without word tokens is scored as fully relevant
_compute_relevance_score_wordless_one(text_content, role_category, task_category, task_desc) ==
    LET word_tokens == findall_words(lower(text_content))
        token_count == Len(word_tokens)
        role_relevance ==
            Rat(Count(word_tokens, LAMBDA token : InList(token, TermsOf(role_terms, role_category))),
                token_count)
        task_relevance ==
            Rat(Count(word_tokens, LAMBDA token : InList(token, TermsOf(task_terms, task_category))),
                token_count)
        task_word_set == ToSet(findall_words(lower(task_desc)))
        direct_relevance ==
            Rat(Count(word_tokens, LAMBDA token : token \in task_word_set /\ Len(token) > 3),
                token_count)
    IN IF token_count = 0 THEN Rat(1, 1)
       ELSE ScaleAndCap(WeightedCombination(role_relevance, task_relevance, direct_relevance))

_compute_relevance_score(text_content, role_category, task_category, task_desc) ==
    LET normalized_content == lower(text_content)
        word_tokens == findall_words(normalized_content)
        token_count == Len(word_tokens)
        role_specific_terms == TermsOf(role_terms, role_category)
        role_matches == Count(word_tokens, LAMBDA token : InList(token, role_specific_terms))
        role_relevance == Rat(role_matches, token_count)
        task_specific_terms == TermsOf(task_terms, task_category)
        task_matches == Count(word_tokens, LAMBDA token : InList(token, task_specific_terms))
        task_relevance == Rat(task_matches, token_count)
        task_word_set == ToSet(findall_words(lower(task_desc)))
        direct_matches == Count(word_tokens, LAMBDA token : token \in task_word_set /\ Len(token) > 3)
        direct_relevance == Rat(direct_matches, token_count)
        combined_score == WeightedCombination(role_relevance, task_relevance, direct_relevance)
    IN IF token_count = 0 THEN Rat(0, 1)
       ELSE ScaleAndCap(combined_score)

\* variant: the overlap divided by the number of content keywords
_compute_task_alignment_score_by_content(text_content, task_desc) ==
    LET task_keywords == ToSet(findall_words4(lower(task_desc)))
        content_keywords == ToSet(findall_words4(lower(text_content)))
        matched_terms == Cardinality(task_keywords \cap content_keywords)
    IN IF task_keywords = {} \/ content_keywords = {} THEN Rat(0, 1)
       ELSE RatMin(Rat(matched_terms, Cardinality(content_keywords)), Rat(1, 1))

_compute_task_alignment_score(text_content, task_desc) ==
    LET normalized_content == lower(text_content)
        normalized_task == lower(task_desc)
        task_keywords == ToSet(findall_words4(normalized_task))
        content_keywords == ToSet(findall_words4(normalized_content))
        matched_terms == Cardinality(task_keywords \cap content_keywords)
    IN IF task_keywords = {} THEN Rat(0, 1)
       ELSE RatMin(Rat(matched_terms, Cardinality(task_keywords)), Rat(1, 1))

-----------------------------------------------------------------------------
(* PersonaProcessor: the Insight Extractor *)

\* observations.append(text) if any(keyword in normalized_text for keyword in triggers)
Observe(observations, triggers, normalized_text, text) ==
    IF AnyIn(triggers, normalized_text) THEN Append(observations, text) ELSE observations

\* variant: the manager role has a rule of its own
RoleObservations_manager_rule(normalized_text, role_category) ==
    IF role_category = "researcher" THEN
        Observe(Observe(Observe(<<>>,
            <<"methodology", "method", "approach">>, normalized_text, "Research methodology identified"),
            <<"data", "dataset", "sample">>, normalized_text, "Data sources and datasets mentioned"),
            <<"result", "finding", "conclusion">>, normalized_text, "Research findings and results presented")
    ELSE IF role_category = "student" THEN
        Observe(Observe(Observe(<<>>,
            <<"concept", "principle", "theory">>, normalized_text, "Key concepts for learning identified"),
            <<"example", "illustration", "case">>, normalized_text, "Examples and illustrations available"),
            <<"exercise", "problem", "practice">>, normalized_text, "Practice materials and exercises found")
    ELSE IF role_category = "analyst" THEN
        Observe(Observe(Observe(<<>>,
            <<"trend", "pattern", "analysis">>, normalized_text, "Analytical insights and trends identified"),
            <<"metric", "kpi", "performance">>, normalized_text, "Performance metrics and KPIs mentioned"),
            <<"forecast", "prediction", "projection">>, normalized_text, "Forecasting and predictive information")
    ELSE IF role_category = "manager" THEN
        Observe(<<>>, <<"performance", "team", "plan">>, normalized_text, "Management topics identified")
    ELSE <<>>

RoleObservations(normalized_text, role_category) ==
    IF role_category = "researcher" THEN
        Observe(Observe(Observe(<<>>,
            <<"methodology", "method", "approach">>, normalized_text, "Research methodology identified"),
            <<"data", "dataset", "sample">>, normalized_text, "Data sources and datasets mentioned"),
            <<"result", "finding", "conclusion">>, normalized_text, "Research findings and results presented")
    ELSE IF role_category = "student" THEN
        Observe(Observe(Observe(<<>>,
            <<"concept", "principle", "theory">>, normalized_text, "Key concepts for learning identified"),
            <<"example", "illustration", "case">>, normalized_text, "Examples and illustrations available"),
            <<"exercise", "problem", "practice">>, normalized_text, "Practice materials and exercises found")
    ELSE IF role_category = "analyst" THEN
        Observe(Observe(Observe(<<>>,
            <<"trend", "pattern", "analysis">>, normalized_text, "Analytical insights and trends identified"),
            <<"metric", "kpi", "performance">>, normalized_text, "Performance metrics and KPIs mentioned"),
            <<"forecast", "prediction", "projection">>, normalized_text, "Forecasting and predictive information")
    ELSE <<>>

\* variant: the job rule is applied before the role rules
_extract_role_specific_observations_job_first(text_content, role_category, task_category) ==
    LET normalized_text == lower(text_content)
        observations ==
            IF task_category = "review" THEN
                Observe(<<>>, <<"summary", "overview", "abstract">>, normalized_text,
                        "Summary content suitable for review")
            ELSE IF task_category = "analyze" THEN
                Observe(<<>>, <<"comparison", "contrast", "versus">>, normalized_text,
                        "Comparative analysis opportunities")
            ELSE <<>>
    IN observations \o RoleObservations(normalized_text, role_category)

_extract_role_specific_observations(text_content, role_category, task_category) ==
    LET normalized_text == lower(text_content)
        observations == RoleObservations(normalized_text, role_category)
    IN IF task_category = "review" THEN
           Observe(observations, <<"summary", "overview", "abstract">>, normalized_text,
                   "Summary content suitable for review")
       ELSE IF task_category = "analyze" THEN
           Observe(observations, <<"comparison", "contrast", "versus">>, normalized_text,
                   "Comparative analysis opportunities")
       ELSE observations

\* token_frequency[token]: Counter(word_tokens)[token]
Frequency(word_tokens, token) == Count(word_tokens, LAMBDA t : t = token)

\* the loop of _find_relevant_concepts over word_tokens[i..]
RECURSIVE ConceptsFrom(_, _, _, _)
ConceptsFrom(word_tokens, applicable_terms, i, important_concepts) ==
    IF i > Len(word_tokens) THEN important_concepts
    ELSE LET token == word_tokens[i]
         IN IF /\ InList(token, applicable_terms)
               /\ Frequency(word_tokens, token) >= 1
               /\ Len(token) > 3
               /\ ~InList(token, important_concepts)
            THEN ConceptsFrom(word_tokens, applicable_terms, i + 1, Append(important_concepts, token))
            ELSE ConceptsFrom(word_tokens, applicable_terms, i + 1, important_concepts)

\* variant: the list is returned whole
_find_relevant_concepts_uncapped(text_content, role_category) ==
    ConceptsFrom(findall_words(lower(text_content)), TermsOf(role_terms, role_category), 1, <<>>)

_find_relevant_concepts(text_content, role_category) ==
    LET normalized_content == lower(text_content)
        word_tokens == findall_words(normalized_content)
        applicable_terms == TermsOf(role_terms, role_category)
    IN Prefix(ConceptsFrom(word_tokens, applicable_terms, 1, <<>>), 10)

-----------------------------------------------------------------------------
(* PersonaProcessor: the Priority Classifier *)

\* variant: the high threshold made strict
_determine_importance_level_strict(relevance, observations, concepts) ==
    IF ~RatLE(relevance, Rat(6, 10)) /\ Len(observations) >= 2 THEN "high"
    ELSE IF RatLE(Rat(3, 10), relevance) /\ (Len(observations) >= 1 \/ Len(concepts) >= 3)
         THEN "medium"
    ELSE "low"

_determine_importance_level(relevance, observations, concepts) ==
    IF RatLE(Rat(6, 10), relevance) /\ Len(observations) >= 2 THEN "high"
    ELSE IF RatLE(Rat(3, 10), relevance) /\ (Len(observations) >= 1 \/ Len(concepts) >= 3)
         THEN "medium"
    ELSE "low"

-----------------------------------------------------------------------------
(* PersonaProcessor: augmenting a section *)

_augment_section_with_role_context(section, role_category, task_category, role_desc, task_desc) ==
    LET section_content == Get(section, "content", "")
        section_header == Get(section, "section_title", "")
        relevance == _compute_relevance_score(section_content \o " " \o section_header,
                                              role_category, task_category, task_desc)
        role_observations ==
            _extract_role_specific_observations(section_content, role_category, task_category)
        important_concepts == _find_relevant_concepts(section_content, role_category)
    IN [persona_relevance_score |-> relevance,
        persona_insights |-> role_observations,
        key_concepts |-> important_concepts,
        persona_priority |->
            _determine_importance_level(relevance, role_observations, important_concepts),
        job_alignment_score |->
            _compute_task_alignment_score(section_content \o " " \o section_header, task_desc)]
       @@ section

-----------------------------------------------------------------------------
(* PersonaProcessor: the Analysis Aggregator and process_with_persona *)

\* sum(section.get("persona_relevance_score", 0) for section in section_list)
RECURSIVE SumRelevance(_, _)
SumRelevance(section_list, i) ==
    IF i > Len(section_list) THEN Rat(0, 1)
    ELSE RatAdd(Get(section_list[i], "persona_relevance_score", Rat(0, 1)),
                SumRelevance(section_list, i + 1))

\* round(x, 3): the nearest multiple of 1/1000, a tie going to the even one
Round3(x) ==
    LET n == x[1] * 1000
        q == n \div x[2]
        r == n % x[2]
    IN Rat(IF 2 * r < x[2] THEN q
           ELSE IF 2 * r > x[2] THEN q + 1
           ELSE IF q % 2 = 0 THEN q ELSE q + 1, 1000)

\* combined_observations.extend(section.get("persona_insights", [])) for each section
RECURSIVE CombinedObservations(_, _)
CombinedObservations(section_list, i) ==
    IF i > Len(section_list) THEN <<>>
    ELSE Get(section_list[i], "persona_insights", <<>>) \o CombinedObservations(section_list, i + 1)

\* Counter(items).most_common(n): the distinct items by decreasing count, items
\* of equal count in the order of their first occurrence
MostCommon(items, n) ==
    LET FirstAt(x) == CHOOSE i \in 1..Len(items) : items[i] = x /\ \A j \in 1..(i - 1) : items[j] # x
        Freq(x) == Count(items, LAMBDA y : y = x)
        Before(x, y) == Freq(x) > Freq(y) \/ (Freq(x) = Freq(y) /\ FirstAt(x) < FirstAt(y))
        Rank(x) == Cardinality({y \in ToSet(items) : Before(y, x)}) + 1
        ranked == [k \in 1..Cardinality(ToSet(items)) |-> CHOOSE x \in ToSet(items) : Rank(x) = k]
    IN Prefix(ranked, n)

\* variant: the sum is divided by section_count itself, which raises for no section
_build_role_analysis_summary_plain_mean(section_list, role_category, role_desc) ==
    LET section_count == Len(section_list)
        high_importance == Count(section_list, LAMBDA sec : Get(sec, "persona_priority", "") = "high")
        medium_importance == Count(section_list, LAMBDA sec : Get(sec, "persona_priority", "") = "medium")
    IN IF section_count = 0 THEN [raised |-> "ZeroDivisionError"]
       ELSE [persona_type |-> role_category,
             total_sections_analyzed |-> section_count,
             high_priority_sections |-> high_importance,
             medium_priority_sections |-> medium_importance,
             low_priority_sections |-> section_count - high_importance - medium_importance,
             average_relevance_score |->
                 Round3(RatMul(SumRelevance(section_list, 1), Rat(1, section_count))),
             top_insights |-> MostCommon(CombinedObservations(section_list, 1), 5)]

_build_role_analysis_summary(section_list, role_category, role_desc) ==
    LET section_count == Len(section_list)
        high_importance == Count(section_list, LAMBDA sec : Get(sec, "persona_priority", "") = "high")
        medium_importance == Count(section_list, LAMBDA sec : Get(sec, "persona_priority", "") = "medium")
        mean_relevance == RatMul(SumRelevance(section_list, 1),
                                 Rat(1, IF section_count > 1 THEN section_count ELSE 1))
        key_observations == MostCommon(CombinedObservations(section_list, 1), 5)
    IN [persona_type |-> role_category,
        total_sections_analyzed |-> section_count,
        high_priority_sections |-> high_importance,
        medium_priority_sections |-> medium_importance,
        low_priority_sections |-> section_count - high_importance - medium_importance,
        average_relevance_score |-> Round3(mean_relevance),
        top_insights |-> key_observations]

\* variant: augmented_section = section_data, the update is made on the argument
section_data_after_update(section, role_category, task_category, role_desc, task_desc) ==
    _augment_section_with_role_context(section, role_category, task_category, role_desc, task_desc)

\* the dict passed as section_data when _augment_section_with_role_context has
\* returned: the update is made on section_data.copy(), the argument is only read
section_data_after_augment(section, role_category, task_category, role_desc, task_desc) ==
    section

process_with_persona(doc, user_persona, user_job) ==
    LET role_desc == lower(Get(user_persona, "role", ""))
        task_desc == lower(Get(user_job, "task", ""))
        role == _classify_user_role(role_desc)
        task == _classify_user_task(task_desc)
        doc_sections == Get(doc, "sections", <<>>)
        processed_sections ==
            [k \in 1..Len(doc_sections) |->
                _augment_section_with_role_context(doc_sections[k], role, task, role_desc, task_desc)]
    IN [persona_type |-> role,
        persona_role |-> role_desc,
        job_type |-> task_desc,
        job_context |-> task_desc,
        sections |-> processed_sections,
        metadata |-> _build_role_analysis_summary(processed_sections, role, role_desc)]

-----------------------------------------------------------------------------
(* Inputs of the Section Resolver *)

MaxCands == 3

LongContent == Rep("lorem ip", 12) \o "sum."      \* 100 characters
LongerContent == LongContent \o "x"                \* 101 characters

\* titles on both sides of the keep test (longer than 3) and of the title bonus
\* (longer than 10), contents on both sides of the content bonus (longer than 100)
CandTexts ==
    {<<"", LongContent>>, <<"Abc", LongContent>>,
     <<"Abcd", LongContent>>, <<"Abcd", LongerContent>>, <<"Background", LongerContent>>,
     <<"Methodology", LongContent>>, <<"Methodology", LongerContent>>}
Methods == <<"header", "paragraph", "list">>
MethodRank(m) == CHOOSE k \in 1..3 : Methods[k] = m

Candidate(t, c, m) ==
    [section_title |-> t, page_number |-> 1, content |-> c, detection_method |-> m]

CandPool == {Candidate(tc[1], tc[2], Methods[k]) : tc \in CandTexts, k \in 1..3}

\* _detect_sections concatenates header, then paragraph, then list candidates
InDetectorOrder(s) ==
    \A i \in 1..(Len(s) - 1) :
        MethodRank(s[i].detection_method) <= MethodRank(s[i + 1].detection_method)

ShortCandLists ==
    UNION {{s \in [1..n -> CandPool] : InDetectorOrder(s)} : n \in 0..MaxCands}

\* Lists around the max_sections cap: n candidates "Title 1" .. "Title n", where
\* for d > 0 every d-th candidate repeats the title of the one before it.
MaxOverCap == 2
DupEvery == {0, 7}

LongCandList(n, d) ==
    LET f == [i \in 1..n |->
                Candidate("Title " \o ToString(IF d > 0 /\ i % d = 0 THEN i - 1 ELSE i),
                          IF i % 2 = 0 THEN LongContent ELSE LongerContent,
                          IF i <= 20 THEN "header" ELSE IF i <= 40 THEN "paragraph" ELSE "list")]
    IN SubSeq(f, 1, n)

\* without repeats n candidates are kept; with d = 7, n - n \div 7 are
LongCandLists ==
    {LongCandList(n + (IF d > 0 THEN 9 ELSE 0), d) :
        n \in (max_sections - 1)..(max_sections + MaxOverCap), d \in DupEvery}

CandLists == ShortCandLists \cup LongCandLists

Filenames == {"doc.pdf"}

-----------------------------------------------------------------------------
(* Inputs of the classifiers, the Priority Classifier and process_with_persona *)

Phrases(words, maxlen) == {Join(w) : w \in UNION {[1..n -> words] : n \in 0..maxlen}}

MaxRoleWords == 2
RoleWords == {"manager", "team", "study", "learn", "strategy", "PhD", "founder",
              "student", "trainer", "plumber", "Analyst", "Research"}
ScenarioCRole == "I am a middle manager overseeing a product team"
\* two researcher keywords next to the two manager keywords
ResearchManagerRole == "Manager of a research team running a clinical study"
RoleDescriptions == Phrases(RoleWords, MaxRoleWords) \cup {ScenarioCRole, ResearchManagerRole}

MaxTaskWords == 2
TaskWords == {"review", "study", "Analyze", "plan", "organize", "summarize",
              "cook", "assess", "analysis", "Compare", "highlight"}
TaskDescriptions == Phrases(TaskWords, MaxTaskWords)

RelevanceSteps == 20
MaxObservations == 4
MaxConcepts == 4
SomeObservations ==
    <<"Research methodology identified", "Data sources and datasets mentioned",
      "Research findings and results presented", "Summary content suitable for review">>
SomeConcepts == role_terms[1].terms
Relevances == {Rat(k, RelevanceSteps) : k \in 0..RelevanceSteps}
\* for each length two lists of different content
ObservationLists ==
    {[i \in 1..n |-> SomeObservations[((i + o) % Len(SomeObservations)) + 1]] :
        n \in 0..MaxObservations, o \in 0..1}
ConceptLists ==
    {[i \in 1..n |-> SomeConcepts[((i + o) % Len(SomeConcepts)) + 1]] :
        n \in 0..MaxConcepts, o \in 0..1}

\* a dict without keys
EmptyDict == <<>>

\* one description for each Role Category and each Job Category; the dict
\* without the key gives the empty description
PersonaRoles == {"Researcher", "student", "I evaluate trends", "Teacher", "Manager of a team",
                 "startup founder"}
PersonaTasks == {"review study", "Learn", "Analyze and compare", "prepare", "summarize", "cook",
                 "fix it now"}
UserPersonas == {[role |-> r] : r \in PersonaRoles} \cup {EmptyDict}
UserJobs == {[task |-> t] : t \in PersonaTasks} \cup {EmptyDict}

Section(t, c, m, n) ==
    [section_title |-> t, page_number |-> 1, content |-> c, detection_method |-> m,
     section_id |-> section_id_of("doc.pdf", n), word_count |-> SplitCount(c),
     confidence_score |-> _calculate_confidence(Candidate(t, c, m))]

MaxDocSections == 3
DocSectionPool ==
    <<[content |-> "research study", section_title |-> ""],
      [content |-> "", section_title |-> ""],
      EmptyDict,
      Section("Methods Overview",
              "The methodology uses data and results. Summary of findings", "header", 1),
      Section("Market Trends",
              "Trend analysis: performance metric forecast versus comparison", "paragraph", 2),
      Section("Learn Basics",
              "Study the concept, theory and example; practice each exercise.", "paragraph", 3),
      Section("- review the plan",
              "- review the plan and the data of the team\n- keep a log of it all for the study",
              "list", 4),
      Section("Research Notes",
              "Research study: analysis of data. Methodology, experiment, hypothesis; literature and publication. Findings: results, conclusion. More data and research.",
              "paragraph", 5),
      Section("Team Plan", "Team plan overview: strategy review", "header", 6)>>

\* the sections of a document: n sections of the pool, from one on in steps of
\* step (0 repeats the same section)
DocSections(n, start, step) ==
    [k \in 1..n |-> DocSectionPool[((start - 1 + (k - 1) * step) % Len(DocSectionPool)) + 1]]

DocAnalyses ==
    {[sections |-> DocSections(n, start, step)] :
        n \in 0..MaxDocSections, start \in 1..Len(DocSectionPool), step \in {0, 1, 4}}

-----------------------------------------------------------------------------
(* Inputs of the detectors, of analyze_document and of the batch driver *)

Twice(s) == s \o s

\* n uppercase letters
Caps(n) == Rep("A", n)

PlainLine == "The quarterly revenue grew by 15%."
ScenarioAPage == "FINANCIAL OVERVIEW\n" \o PlainLine

\* a paragraph of 29 characters, and paragraphs of 1000 and 2000
Para29 == "Twenty-nine characters it is."
Para1000 == Twice(Twice(Twice(Rep("lorem ip", 15) \o "sum.x")))
Para2000 == Twice(Para1000)

\* page texts as get_text() returns them
ShortPageTexts ==
    {"", " \n ",
     ScenarioAPage,
     "FINANCIAL OVERVIEW\nSee the FINANCIAL OVERVIEW table.",
     "Read the FINANCIAL OVERVIEW first.\nIntro line before.\n" \o ScenarioAPage,
     "Summary: the plan\n\n- first item of the list\n- second item of the list\ncontinued here\nNext Part\n\n"
        \o Para29 \o "\n\n " \o Para29 \o "x \n\n\n* a b",
     "1. Introduction\nThis section introduces the topic. It is short.\n2) methods\n\nSection 2 - Results and more\nAll good here.",
     "Chapter 12\nSection 3:\nKEY FINDINGS:\nthe findings are listed below\n\nNEXT STEPS AHEAD\n" \o PlainLine,
     ScenarioAPage \o "\n\n" \o ScenarioAPage}

\* a line of uppercase letters around the limits of the pattern, then a text line
CapsPageTexts == {Caps(n) \o "\n" \o PlainLine : n \in {5, 6, 40, 41, 42}}

\* pages for the gathering of header content and of list content
GatherPageTexts ==
    {"KEY FINDINGS\nfirst line of text\n\nsecond line of text",
     "KEY FINDINGS\n\n\nNEXT STEPS AHEAD\nsome text follows",
     "KEY FINDINGS",
     "KEY FINDINGS\ntext line a is here\nKEY FINDINGS REVISITED\ntext line b is here",
     "KEY FINDINGS\nintro text line\n1. First Heading\nafter the stop\nmore",
     "- item one is here\n- item two\n\nlower text\n- item three\n- item four\n- item five is beyond\n- item six",
     "* alpha item\nbeta goes on\n\nGamma stops here\n* delta item after the stop is long enough to count"}

LongPageTexts ==
    {Para2000, Para2000 \o "x", " " \o Para2000 \o "\n\n" \o Para2000 \o ".\n\n" \o PlainLine,
     "LONG SECTION\n" \o Para1000 \o "\n" \o Para1000 \o "x\nlast line\nnot reached"}

MaxPages == 2

\* the documents: the page texts of each
DocumentTexts ==
    UNION {[1..n -> ShortPageTexts] : n \in 0..MaxPages}
        \cup {<<t>> : t \in CapsPageTexts \cup GatherPageTexts \cup LongPageTexts}

Now == "2025-07-28T10:00:00"

PdfFile(path, texts) == [path |-> path, state |-> "ok", texts |-> texts]
CorruptFile == [path |-> "input/bad.pdf", state |-> "corrupt", texts |-> <<>>]
MissingFile == [path |-> "input/none.pdf", state |-> "missing", texts |-> <<>>]

\* the files given to analyze_document
Files == {PdfFile("input/doc.pdf", t) : t \in DocumentTexts} \cup {CorruptFile, MissingFile}

\* the documents of an input spec: up to MaxBatch of these files
MaxBatch == 3
BatchFiles ==
    {PdfFile("input/a.pdf", <<ScenarioAPage>>),
     PdfFile("b.pdf", <<" \n", "\n  Title line \nbody", "", ScenarioAPage, PlainLine>>),
     CorruptFile, MissingFile}
Configs ==
    {[persona |-> [role |-> "Researcher"], job_to_be_done |-> [task |-> "review study"],
      documents |-> docs] : docs \in UNION {[1..n -> BatchFiles] : n \in 0..MaxBatch}}

-----------------------------------------------------------------------------
(* Actions: one call of one operation per behaviour *)

Init ==
    /\ pc = "idle"
    /\ candidates = <<>>
    /\ sections = <<>>
    /\ filename = ""
    /\ unique_sections = <<>>
    /\ role_description = ""
    /\ task_description = ""
    /\ detected_role = ""
    /\ detected_task = ""
    /\ relevance_metric = Rat(0, 1)
    /\ observation_list = <<>>
    /\ concept_list = <<>>
    /\ importance_level = ""
    /\ doc_analysis = EmptyDict
    /\ section_data = <<>>
    /\ persona_analysis = EmptyDict
    /\ page_contents = <<>>
    /\ pdf_file = EmptyDict
    /\ analysis = EmptyDict
    /\ config = EmptyDict
    /\ doc_index = 0
    /\ output_data = EmptyDict
    /\ output_file = <<>>

ProcessDetectedSections ==
    /\ pc = "idle"
    /\ \E secs \in CandLists, fname \in Filenames :
          /\ candidates' = secs
          /\ filename' = fname
          /\ sections' = Resolved(secs, fname).secs
          /\ unique_sections' = _process_detected_sections(secs, fname)
    /\ pc' = "process_detected_sections"
    /\ UNCHANGED <<classifierVars, priorityVars, personaVars, driverVars>>

ClassifyUserRole ==
    /\ pc = "idle"
    /\ \E d \in RoleDescriptions :
          /\ role_description' = d
          /\ detected_role' = _classify_user_role(d)
    /\ pc' = "classify_user_role"
    /\ UNCHANGED <<task_description, detected_task, resolverVars, priorityVars, personaVars, driverVars>>

ClassifyUserTask ==
    /\ pc = "idle"
    /\ \E d \in TaskDescriptions :
          /\ task_description' = d
          /\ detected_task' = _classify_user_task(d)
    /\ pc' = "classify_user_task"
    /\ UNCHANGED <<role_description, detected_role, resolverVars, priorityVars, personaVars, driverVars>>

DetermineImportanceLevel ==
    /\ pc = "idle"
    /\ \E r \in Relevances, obs \in ObservationLists, con \in ConceptLists :
          /\ relevance_metric' = r
          /\ observation_list' = obs
          /\ concept_list' = con
          /\ importance_level' = _determine_importance_level(r, obs, con)
    /\ pc' = "determine_importance_level"
    /\ UNCHANGED <<resolverVars, classifierVars, personaVars, driverVars>>

\* process_with_persona, with its locals role_description, task_description,
\* detected_role and detected_task (lines 56-61)
ProcessWithPersona ==
    /\ pc = "idle"
    /\ \E doc \in DocAnalyses, user_persona \in UserPersonas, user_job \in UserJobs :
          /\ doc_analysis' = doc
          /\ role_description' = lower(Get(user_persona, "role", ""))
          /\ task_description' = lower(Get(user_job, "task", ""))
          /\ detected_role' = _classify_user_role(lower(Get(user_persona, "role", "")))
          /\ detected_task' = _classify_user_task(lower(Get(user_job, "task", "")))
          /\ persona_analysis' = process_with_persona(doc, user_persona, user_job)
          /\ section_data' =
                LET role_desc == lower(Get(user_persona, "role", ""))
                    task_desc == lower(Get(user_job, "task", ""))
                    doc_sections == Get(doc, "sections", <<>>)
                IN [k \in 1..Len(doc_sections) |->
                       section_data_after_augment(doc_sections[k],
                           _classify_user_role(role_desc), _classify_user_task(task_desc),
                           role_desc, task_desc)]
    /\ pc' = "process_with_persona"
    /\ UNCHANGED <<resolverVars, priorityVars, driverVars>>

\* _detect_sections as analyze_document calls it, on the pages and the full
\* text _extract_pdf_content makes of the page texts
DetectSections ==
    /\ pc = "idle"
    /\ \E texts \in DocumentTexts, fname \in Filenames :
          LET content == _extract_pdf_content(texts)
              detected == DetectedCandidates(content.full_text, content.page_contents)
          IN /\ page_contents' = content.page_contents
             /\ filename' = fname
             /\ candidates' = detected
             /\ sections' = Resolved(detected, fname).secs
             /\ unique_sections' =
                    _detect_sections(content.full_text, fname, content.page_contents)
    /\ pc' = "detect_sections"
    /\ UNCHANGED <<classifierVars, priorityVars, personaVars,
                   pdf_file, analysis, config, doc_index, output_data, output_file>>

AnalyzeDocument ==
    /\ pc = "idle"
    /\ \E file \in Files :
          /\ pdf_file' = file
          /\ analysis' = analyze_document(file, Now)
    /\ pc' = "analyze_document"
    /\ UNCHANGED <<resolverVars, classifierVars, priorityVars, personaVars,
                   page_contents, config, doc_index, output_data, output_file>>

\* process_input_spec up to its loop
ProcessInputSpec ==
    /\ pc = "idle"
    /\ \E c \in Configs :
          /\ config' = c
          /\ output_data' = InitialOutputData(c, Now)
    /\ doc_index' = 1
    /\ pc' = "process_input_spec"
    /\ UNCHANGED <<resolverVars, classifierVars, priorityVars, personaVars,
                   page_contents, pdf_file, analysis, output_file>>

\* one iteration of the loop: process_single_document on the next document;
\* an exception it raises is caught nowhere and ends process_input_spec
ProcessSingleDocument ==
    /\ pc = "process_input_spec"
    /\ doc_index <= Len(config.documents)
    /\ LET done == process_single_document(config.documents[doc_index], output_data)
       IN IF done.raised = ""
          THEN /\ output_data' = done.output_data
               /\ doc_index' = doc_index + 1
               /\ pc' = pc
          ELSE /\ pc' = "raised"
               /\ UNCHANGED <<output_data, doc_index>>
    /\ UNCHANGED <<resolverVars, classifierVars, priorityVars, personaVars,
                   page_contents, pdf_file, analysis, config, output_file>>

\* after the loop: json.dump(output_data, file)
WriteOutput ==
    /\ pc = "process_input_spec"
    /\ doc_index > Len(config.documents)
    /\ output_file' = <<output_data>>
    /\ pc' = "output_written"
    /\ UNCHANGED <<resolverVars, classifierVars, priorityVars, personaVars,
                   page_contents, pdf_file, analysis, config, doc_index, output_data>>

Next ==
    \/ ProcessDetectedSections
    \/ DetectSections
    \/ AnalyzeDocument
    \/ ProcessInputSpec
    \/ ProcessSingleDocument
    \/ WriteOutput
    \/ ClassifyUserRole
    \/ ClassifyUserTask
    \/ DetermineImportanceLevel
    \/ ProcessWithPersona

Spec == Init /\ [][Next]_vars

-----------------------------------------------------------------------------
(* Properties of the Section Resolver *)

ResolverDone == pc = "process_detected_sections"
TitleOf(sec) == Get(sec, "section_title", "")

\* candidate i passes the keep test: its title is longer than 3 characters and
\* no earlier candidate carries the same title
Accepted(i) ==
    /\ Len(TitleOf(candidates[i])) > 3
    /\ \A j \in 1..(i - 1) : TitleOf(candidates[j]) # TitleOf(candidates[i])

\* the value of a string of decimal digits
DigitVal(c) == CHOOSE d \in 0..9 : ToString(d) = c
RECURSIVE ParseNat(_)
ParseNat(str) ==
    IF Len(str) = 0 THEN 0
    ELSE 10 * ParseNat(SubSeq(str, 1, Len(str) - 1)) + DigitVal(Char(str, Len(str)))

\* the numeric suffix of a section_id "<filename>_section_<n>"
SuffixOf(id) == ParseNat(SubSeq(id, Len(filename) + Len("_section_") + 1, Len(id)))

\* C1: no two returned sections have the same section_title, and each returned
\* section is the first candidate of the concatenated list that carries its
\* title, with that candidate's fields.
C1_UniqueTitlesFirstKept ==
    ResolverDone =>
        /\ \A a, b \in 1..Len(unique_sections) :
              a # b => unique_sections[a].section_title # unique_sections[b].section_title
        /\ \A k \in 1..Len(unique_sections) :
              \E i \in 1..Len(candidates) :
                 /\ candidates[i].section_title = unique_sections[k].section_title
                 /\ \A j \in 1..(i - 1) :
                       candidates[j].section_title # unique_sections[k].section_title
                 /\ \A f \in DOMAIN candidates[i] : unique_sections[k][f] = candidates[i][f]

\* two different candidates carry the same valid title and one section with that title is returned
C1_Witness ==
    /\ ResolverDone
    /\ \E i, j \in 1..Len(candidates) :
          /\ i < j
          /\ candidates[i] # candidates[j]
          /\ candidates[i].section_title = candidates[j].section_title
          /\ \E k \in 1..Len(unique_sections) :
                unique_sections[k].section_title = candidates[i].section_title

\* C2: a kept section's section_id is "<filename>_section_<p>", p being the
\* 1-based position of its candidate in the full candidate list; the ids are
\* pairwise distinct, their suffixes are non-decreasing in output order, and a
\* suffix below the last one is missing exactly when the candidate at that
\* position was rejected (when nothing is cut by the cap, this holds for every position).
C2_SectionIds ==
    ResolverDone =>
        LET n == Len(unique_sections)
            Pos(k) == CHOOSE i \in 1..Len(candidates) :
                         /\ candidates[i].section_title = unique_sections[k].section_title
                         /\ \A j \in 1..(i - 1) :
                               candidates[j].section_title # unique_sections[k].section_title
            Suffixes == {SuffixOf(unique_sections[k].section_id) : k \in 1..n}
            Last == IF n = 0 THEN 0 ELSE SuffixOf(unique_sections[n].section_id)
            Uncut == Cardinality({i \in 1..Len(candidates) : Accepted(i)}) <= max_sections
        IN /\ \A k \in 1..n :
                /\ unique_sections[k].section_id = filename \o "_section_" \o ToString(Pos(k))
                /\ SuffixOf(unique_sections[k].section_id) = Pos(k)
           /\ \A a, b \in 1..n :
                a < b => /\ unique_sections[a].section_id # unique_sections[b].section_id
                         /\ SuffixOf(unique_sections[a].section_id)
                               <= SuffixOf(unique_sections[b].section_id)
           /\ \A i \in 1..(IF Uncut THEN Len(candidates) ELSE Last) :
                (i \notin Suffixes) <=> ~Accepted(i)

\* a rejected candidate lies between two kept ones, so that a suffix is skipped
C2_Witness ==
    /\ ResolverDone
    /\ \E k \in 1..(Len(unique_sections) - 1) :
          /\ SuffixOf(unique_sections[k + 1].section_id)
                > SuffixOf(unique_sections[k].section_id) + 1
          /\ ~Accepted(SuffixOf(unique_sections[k].section_id) + 1)

\* C10: a kept section's confidence_score is min(0.5 + w + b, 1.0), w being 0.3,
\* 0.2, 0.1 for header, paragraph, list and b being 0.1 for a content longer than
\* 100 characters plus 0.1 for a title longer than 10; it is one of 0.6, 0.7,
\* 0.8, 0.9, 1.0.
C10_ConfidenceFormula ==
    ResolverDone =>
        \A k \in 1..Len(unique_sections) :
            LET sec == unique_sections[k]
                w == CASE sec.detection_method = "header" -> 3
                       [] sec.detection_method = "paragraph" -> 2
                       [] sec.detection_method = "list" -> 1
                b == (IF Len(sec.content) > 100 THEN 1 ELSE 0)
                        + (IF Len(sec.section_title) > 10 THEN 1 ELSE 0)
                tenths == IF 5 + w + b > 10 THEN 10 ELSE 5 + w + b
            IN /\ sec.confidence_score[1] * 10 = tenths * sec.confidence_score[2]
               /\ tenths \in 6..10

\* a content of exactly 100 characters earns no bonus, one of 101 does
C10_Witness ==
    /\ ResolverDone
    /\ \E a, b \in 1..Len(unique_sections) :
          /\ Len(unique_sections[a].content) = 100
          /\ Len(unique_sections[a].section_title) <= 10
          /\ unique_sections[a].detection_method = "list"
          /\ unique_sections[a].confidence_score = Rat(6, 10)
          /\ Len(unique_sections[b].content) = 101
          /\ Len(unique_sections[b].section_title) > 10
          /\ unique_sections[b].detection_method = "header"
          /\ unique_sections[b].confidence_score = Rat(1, 1)

-----------------------------------------------------------------------------
(* Properties of the scores *)

PersonaDone == pc = "process_with_persona"
PriorityDone == pc = "determine_importance_level"

\* the combined text of a section: content + " " + title
CombinedText(sec) == Get(sec, "content", "") \o " " \o Get(sec, "section_title", "")

\* 0.0 <= x <= 1.0
InUnit(x) == x[2] > 0 /\ 0 <= x[1] /\ x[1] <= x[2]

\* the text has a token: a word character somewhere
HasToken(s) == \E i \in 1..Len(s) : IsWordChar(s, i)

\* the text has a token of length 4 or more: four word characters in a row
HasLongToken(s) == \E i \in 1..(Len(s) - 3) : \A j \in i..(i + 3) : IsWordChar(s, j)

\* C3: confidence_score, persona_relevance_score and job_alignment_score lie in
\* [0.0, 1.0] for every section text, role, job and job description, empty ones
\* included; persona_relevance_score is 0.0 when the combined text has no token
\* and job_alignment_score is 0.0 when the job description has no token of 4 or
\* more characters.
C3_ScoresInUnitInterval ==
    /\ ResolverDone =>
          /\ \A k \in 1..Len(unique_sections) : InUnit(unique_sections[k].confidence_score)
          /\ \A k \in 1..Len(sections) :
                "confidence_score" \in DOMAIN sections[k] => InUnit(sections[k].confidence_score)
    /\ PersonaDone =>
          \A k \in 1..Len(persona_analysis.sections) :
              LET src == doc_analysis.sections[k]
                  sec == persona_analysis.sections[k]
              IN /\ InUnit(sec.persona_relevance_score)
                 /\ InUnit(sec.job_alignment_score)
                 /\ "confidence_score" \in DOMAIN sec => InUnit(sec.confidence_score)
                 /\ ~HasToken(CombinedText(src)) => sec.persona_relevance_score = Rat(0, 1)
                 /\ ~HasLongToken(task_description) => sec.job_alignment_score = Rat(0, 1)

\* one document with a section without tokens (relevance 0.0) and a section of
\* role keywords only, whose weighted sum times 10 is 4.0 and is capped at 1.0,
\* scored for a job description of short words only (alignment 0.0)
C3_Witness ==
    /\ PersonaDone
    /\ detected_role = "researcher"
    /\ task_description = "fix it now"
    /\ \E j, k \in 1..Len(persona_analysis.sections) :
          /\ ~HasToken(CombinedText(doc_analysis.sections[j]))
          /\ persona_analysis.sections[j].persona_relevance_score = Rat(0, 1)
          /\ CombinedText(doc_analysis.sections[k]) = "research study "
          /\ persona_analysis.sections[k].persona_relevance_score = Rat(1, 1)
          /\ persona_analysis.sections[k].job_alignment_score = Rat(0, 1)

-----------------------------------------------------------------------------
(* Properties of the Priority Classifier *)

\* the documented thresholds on (relevance, number of insights, number of key
\* concepts), relevance being the fraction rel[1] / rel[2]
PriorityTable(rel, insight_count, concept_count) ==
    IF 10 * rel[1] >= 6 * rel[2] /\ insight_count >= 2 THEN "high"
    ELSE IF 10 * rel[1] >= 3 * rel[2] /\ (insight_count >= 1 \/ concept_count >= 3) THEN "medium"
    ELSE "low"

\* C4: persona_priority depends only on (relevance, number of insights, number of
\* key concepts): high if relevance >= 0.6 and at least 2 insights, otherwise
\* medium if relevance >= 0.3 and (at least 1 insight or at least 3 concepts),
\* otherwise low; exactly one of the three values is returned.
C4_PriorityTable ==
    /\ PriorityDone =>
          /\ importance_level =
                PriorityTable(relevance_metric, Len(observation_list), Len(concept_list))
          /\ importance_level \in {"high", "medium", "low"}
    /\ PersonaDone =>
          \A k \in 1..Len(persona_analysis.sections) :
              LET sec == persona_analysis.sections[k]
              IN /\ sec.persona_priority =
                        PriorityTable(sec.persona_relevance_score, Len(sec.persona_insights),
                                      Len(sec.key_concepts))
                 /\ sec.persona_priority \in {"high", "medium", "low"}

\* the thresholds are inclusive: relevance exactly 0.6 with exactly 2 insights
C4_Witness ==
    /\ PriorityDone
    /\ relevance_metric = Rat(6, 10)
    /\ Len(observation_list) = 2
    /\ importance_level = "high"

-----------------------------------------------------------------------------
(* Properties of the Role Classifier and the Job Classifier *)

RoleClassified == pc \in {"classify_user_role", "process_with_persona"}
JobClassified == pc \in {"classify_user_task", "process_with_persona"}

RoleOrder == <<"researcher", "student", "analyst", "teacher", "manager", "entrepreneur">>
JobOrder == <<"review", "learn", "analyze", "prepare", "summarize">>

\* the fallback keywords of the role categories, in RoleOrder
FallbackTerms ==
    <<{"phd", "research", "scientist", "academic"}, {"student", "undergraduate", "graduate"},
      {"analyst", "investment", "business"}, {"teacher", "trainer", "instructor"},
      {"manager", "director", "executive"}, {"entrepreneur", "founder", "startup"}>>

\* how many keywords of category k of the table are substrings of the text
Hits(tbl, k, text) ==
    Cardinality({t \in ToSet(tbl[k].terms) : Contains(t, text)})

\* category k has the maximum count and is the earliest category having it
WinsByCount(tbl, k, text) ==
    /\ Hits(tbl, k, text) > 0
    /\ \A j \in 1..Len(tbl) : Hits(tbl, j, text) <= Hits(tbl, k, text)
    /\ \A j \in 1..(k - 1) : Hits(tbl, j, text) < Hits(tbl, k, text)

NoHits(tbl, text) == \A k \in 1..Len(tbl) : Hits(tbl, k, text) = 0

\* the role categories whose fallback keywords match the text
FallbackMatches(text) ==
    {k \in 1..Len(FallbackTerms) : \E t \in FallbackTerms[k] : Contains(t, text)}

\* the first sentence of C6: the six categories are counted in the declared
\* order, the maximum count wins and a tie goes to the earliest category; the
\* fallback decides only when every count is 0, and general is returned only
\* when the fallback matches nothing either
RoleCountRule ==
    RoleClassified =>
        LET d == lower(role_description)
        IN /\ [k \in 1..Len(role_terms) |-> role_terms[k].key] = RoleOrder
           /\ ~NoHits(role_terms, d) =>
                 \E k \in 1..Len(RoleOrder) :
                     detected_role = RoleOrder[k] /\ WinsByCount(role_terms, k, d)
           /\ NoHits(role_terms, d) /\ FallbackMatches(d) # {} =>
                 \E k \in FallbackMatches(d) :
                     /\ detected_role = RoleOrder[k]
                     /\ \A j \in FallbackMatches(d) : k <= j
           /\ detected_role = "general" <=> (NoHits(role_terms, d) /\ FallbackMatches(d) = {})

\* the description contains "manager" and "team"
ManagerAndTeam(d) == Contains("manager", d) /\ Contains("team", d)

\* C6 as stated: the count rule, and every description containing "manager" and
\* "team" is classified manager.  The code classifies "Manager of a research team
\* running a clinical study" researcher: research and study count 2 as well, and
\* researcher is declared before manager.
C6_AsStated ==
    /\ RoleCountRule
    /\ RoleClassified =>
          (ManagerAndTeam(lower(role_description)) => detected_role = "manager")

\* C6, amended: the Role Classifier counts, for each of the six role categories
\* in the declared order, how many of its keywords are substrings of the
\* lowercased description and returns the category with the maximum count, a tie
\* going to the category declared earliest; the fallback is reached only when
\* every count is 0 and general is returned only when the fallback matches
\* nothing.  A description containing "manager" and "team" has a manager count of
\* at least 2, so it is classified by keyword count and not by the fallback: it
\* is classified manager when no category has a larger count and no earlier one
\* an equal count, as for "I am a middle manager overseeing a product team".
C6_RoleClassifier ==
    /\ RoleCountRule
    /\ RoleClassified =>
          LET d == lower(role_description)
          IN /\ ManagerAndTeam(d) =>
                   /\ Hits(role_terms, 5, d) >= 2
                   /\ \E k \in 1..Len(RoleOrder) :
                          detected_role = RoleOrder[k] /\ WinsByCount(role_terms, k, d)
                   /\ WinsByCount(role_terms, 5, d) => detected_role = "manager"
             /\ d = lower(ScenarioCRole) => detected_role = "manager"

\* Scenario C: manager counts 2 ("manage" and "team"), every other category 0
C6_Witness ==
    /\ pc = "classify_user_role"
    /\ role_description = ScenarioCRole
    /\ Hits(role_terms, 5, lower(role_description)) = 2
    /\ \A k \in {1, 2, 3, 4, 6} : Hits(role_terms, k, lower(role_description)) = 0
    /\ FallbackMatches(lower(role_description)) = {5}
    /\ detected_role = "manager"

\* C7: the Job Classifier returns the category among review, learn, analyze,
\* prepare, summarize with the most keywords occurring as substrings of the
\* lowercased task description, a tie going to the category declared earliest;
\* it returns general exactly when no keyword of any category occurs, there
\* being no fallback list.
C7_JobClassifier ==
    JobClassified =>
        LET d == lower(task_description)
        IN /\ [k \in 1..Len(task_terms) |-> task_terms[k].key] = JobOrder
           /\ ~NoHits(task_terms, d) =>
                 \E k \in 1..Len(JobOrder) :
                     detected_task = JobOrder[k] /\ WinsByCount(task_terms, k, d)
           /\ detected_task = "general" <=> NoHits(task_terms, d)
           /\ detected_task \in ToSet(JobOrder) \cup {"general"}

\* "review study": review and learn both count 1, the earlier one is returned
C7_Witness ==
    /\ pc = "classify_user_task"
    /\ task_description = "review study"
    /\ Hits(task_terms, 1, task_description) = 1
    /\ Hits(task_terms, 2, task_description) = 1
    /\ detected_task = "review"

-----------------------------------------------------------------------------
(* Properties of the Relevance Scorer *)

\* the tokens of the lowercased combined text of a section
TokensOf(sec) == findall_words(lower(CombinedText(sec)))

\* how many tokens (counted with repetition) satisfy P
TokenCount(toks, P(_)) == Cardinality({i \in 1..Len(toks) : P(toks[i])})

\* R: tokens equal to a keyword of the role category
RoleTokens(toks) ==
    TokenCount(toks, LAMBDA t : t \in ToSet(TermsOf(role_terms, detected_role)))
\* T: tokens equal to a keyword of the job category
JobTokens(toks) ==
    TokenCount(toks, LAMBDA t : t \in ToSet(TermsOf(task_terms, detected_task)))
\* D: tokens longer than 3 characters among the tokens of the job description
DirectTokens(toks) ==
    TokenCount(toks, LAMBDA t : Len(t) > 3 /\ t \in ToSet(findall_words(lower(task_description))))

\* the section of Scenario B: content "research study", empty title
ScenarioB(sec) == Get(sec, "content", "") = "research study" /\ Get(sec, "section_title", "") = ""

\* C8: for a combined text with N > 0 tokens the relevance score is
\* min(10 * (0.4*R/N + 0.3*T/N + 0.3*D/N), 1.0), that is min((4R + 3T + 3D)/N, 1);
\* for content "research study", empty title, role researcher and job description
\* "review study", classified review, N = 2, R/N = 1.0, T/N = 0.0, D/N = 0.5 and
\* the score is 1.0.
C8_RelevanceFormula ==
    PersonaDone =>
        \A k \in 1..Len(persona_analysis.sections) :
            LET toks == TokensOf(doc_analysis.sections[k])
                N == Len(toks)
                R == RoleTokens(toks)
                T == JobTokens(toks)
                D == DirectTokens(toks)
                weighted == 4 * R + 3 * T + 3 * D
                score == persona_analysis.sections[k].persona_relevance_score
            IN /\ N > 0 =>
                     score[1] * N = score[2] * (IF weighted > N THEN N ELSE weighted)
               /\ (/\ ScenarioB(doc_analysis.sections[k])
                   /\ detected_role = "researcher"
                   /\ task_description = "review study") =>
                     /\ detected_task = "review"
                     /\ N = 2 /\ R = 2 /\ T = 0 /\ 2 * D = N
                     /\ score = Rat(1, 1)

\* Scenario B itself, and in the same document a section scored below the cap
C8_Witness ==
    /\ PersonaDone
    /\ detected_role = "researcher"
    /\ task_description = "review study"
    /\ detected_task = "review"
    /\ \E j, k \in 1..Len(persona_analysis.sections) :
          /\ ScenarioB(doc_analysis.sections[j])
          /\ persona_analysis.sections[j].persona_relevance_score = Rat(1, 1)
          /\ Len(TokensOf(doc_analysis.sections[k])) > 0
          /\ ~RatLE(persona_analysis.sections[k].persona_relevance_score, Rat(0, 1))
          /\ ~RatLE(Rat(1, 1), persona_analysis.sections[k].persona_relevance_score)

-----------------------------------------------------------------------------
(* Properties of the job alignment score *)

\* the distinct tokens of length >= 4 of the lowercased text
Keywords(text) == {t \in ToSet(findall_words(lower(text))) : Len(t) >= 4}

\* C9: job_alignment_score is |K_task intersect K_text| / |K_task|, K_task being
\* the distinct tokens of length >= 4 of the lowercased job description and
\* K_text those of the lowercased combined text; it is 0.0 when K_task is empty
\* and 1.0 exactly when K_task is non-empty and a subset of K_text.
C9_TaskAlignment ==
    PersonaDone =>
        \A k \in 1..Len(persona_analysis.sections) :
            LET K_task == Keywords(task_description)
                K_text == Keywords(CombinedText(doc_analysis.sections[k]))
                score == persona_analysis.sections[k].job_alignment_score
            IN /\ K_task = {} => score = Rat(0, 1)
               /\ K_task # {} =>
                     score[1] * Cardinality(K_task) = score[2] * Cardinality(K_task \cap K_text)
               /\ score = Rat(1, 1) <=> (K_task # {} /\ K_task \subseteq K_text)

\* a job description of two keywords, one section holding one of them (0.5)
\* and one holding both (1.0) among more keywords of its own
C9_Witness ==
    /\ PersonaDone
    /\ Cardinality(Keywords(task_description)) = 2
    /\ \E j, k \in 1..Len(persona_analysis.sections) :
          /\ persona_analysis.sections[j].job_alignment_score = Rat(1, 2)
          /\ persona_analysis.sections[k].job_alignment_score = Rat(1, 1)
          /\ Cardinality(Keywords(CombinedText(doc_analysis.sections[k]))) > 2

-----------------------------------------------------------------------------
(* Properties of the detectors and of _detect_sections *)

Detected == pc = "detect_sections"
ResolverReturned == pc \in {"process_detected_sections", "detect_sections"}

\* the positions of the candidates that pass the keep test
KeptPositions == {i \in 1..Len(candidates) : Accepted(i)}

\* the k-th of them in list order
KeptPosition(k) ==
    CHOOSE i \in KeptPositions : Cardinality({j \in KeptPositions : j < i}) = k - 1

\* header candidates come before paragraph candidates and these before list
\* candidates, and the candidates of one detector are in page order
InConcatenationOrder(cands) ==
    \A i, j \in 1..Len(cands) :
        i < j =>
            /\ MethodRank(cands[i].detection_method) <= MethodRank(cands[j].detection_method)
            /\ cands[i].detection_method = cands[j].detection_method =>
                  cands[i].page_number <= cands[j].page_number

\* C11: the Section Resolver returns at most 50 sections: exactly the first 50
\* (or all, if fewer) candidates that pass the keep test, in the order of the
\* concatenation header candidates, paragraph candidates, list candidates, each
\* detector's candidates being in page order.
C11_FirstFiftyKept ==
    ResolverReturned =>
        LET n == Len(unique_sections)
            kept == Cardinality(KeptPositions)
        IN /\ n <= 50
           /\ n = (IF kept < 50 THEN kept ELSE 50)
           /\ \A k \in 1..n :
                 \A f \in DOMAIN candidates[KeptPosition(k)] :
                     unique_sections[k][f] = candidates[KeptPosition(k)][f]
           /\ Detected =>
                 /\ InConcatenationOrder(candidates)
                 /\ InConcatenationOrder(unique_sections)
                 /\ \A i \in 1..Len(candidates) :
                       candidates[i].page_number \in 1..Len(page_contents)

\* more than 50 candidates pass the keep test, a rejected one lies among the
\* first 50 positions, and the 50 returned are the first 50 kept
C11_Witness ==
    /\ ResolverReturned
    /\ Cardinality(KeptPositions) > 50
    /\ \E i \in 1..50 : i \notin KeptPositions
    /\ Len(unique_sections) = 50
    /\ unique_sections[50].section_title = candidates[KeptPosition(50)].section_title

\* the candidates a detector emitted, in order
CandidatesOf(method) == SelectSeq(candidates, LAMBDA c : c.detection_method = method)

\* C12: for every page text, every candidate of the Paragraph Detector has a
\* content of at least 30 and at most 2000 characters.
C12_ParagraphLength ==
    Detected =>
        \A k \in 1..Len(candidates) :
            candidates[k].detection_method = "paragraph" =>
                /\ Len(candidates[k].content) >= 30
                /\ Len(candidates[k].content) <= 2000

\* a page with paragraphs of 2000, 2001 and 34 characters: the first and the
\* last are emitted, the one of 2001 is not
C12_Witness ==
    /\ Detected
    /\ Len(page_contents) = 1
    /\ Len(Paragraphs(page_contents[1].text)) = 3
    /\ Len(Paragraphs(page_contents[1].text)[2]) = 2001
    /\ Len(CandidatesOf("paragraph")) = 2
    /\ Len(CandidatesOf("paragraph")[1].content) = 2000
    /\ Len(CandidatesOf("paragraph")[2].content) = 34

-----------------------------------------------------------------------------
(* Properties of the Header Detector *)

\* an all-uppercase heading line: 6 to 40 uppercase letters and blanks, the
\* first and the last a letter
UppercaseHeading(line) ==
    /\ Len(line) >= 6 /\ Len(line) <= 40
    /\ AllIn(line, 1, Len(line), UpperChars \cup {" "})
    /\ Char(line, 1) # " " /\ Char(line, Len(line)) # " "

\* a text line that is no heading: not empty, no blank at either end, matched
\* by no header pattern and not uppercase throughout
NonHeadingText(line) ==
    /\ line # "" /\ strip(line) = line
    /\ \A k \in 1..4 : HeaderPatterns(line)[k] = <<>>
    /\ ~LooksLikeHeader(line)

\* the Header Detector emitted, for the page, a candidate of this title and content
HeaderCandidate(page_number, title, content) ==
    \E k \in 1..Len(candidates) :
        /\ candidates[k].detection_method = "header"
        /\ candidates[k].page_number = page_number
        /\ candidates[k].section_title = title
        /\ candidates[k].content = content

\* C13: when a page consists of an all-uppercase heading line followed by one
\* non-heading text line, the Header Detector emits a candidate whose
\* section_title is the heading line, whose content is the following line and
\* whose detection_method is header ("FINANCIAL OVERVIEW" then "The quarterly
\* revenue grew by 15%." gives that title and that content).
C13_HeadingThenText ==
    Detected =>
        \A p \in 1..Len(page_contents) :
            LET lines == split(page_contents[p].text, "\n")
            IN (/\ Len(lines) = 2
                /\ UppercaseHeading(lines[1])
                /\ NonHeadingText(lines[2])) =>
                  HeaderCandidate(page_contents[p].page_number, lines[1], lines[2])

\* the page of the example, for which the candidate is emitted
C13_ScenarioA ==
    /\ Detected
    /\ Len(page_contents) = 1
    /\ page_contents[1].text = "FINANCIAL OVERVIEW\nThe quarterly revenue grew by 15%."
    /\ HeaderCandidate(1, "FINANCIAL OVERVIEW", "The quarterly revenue grew by 15%.")

-----------------------------------------------------------------------------
(* Properties of analyze_document and of the batch driver *)

Analyzed == pc = "analyze_document"

\* C14: when the text extraction of a document fails, analyze_document does
\* not raise: it returns a DocumentAnalysis with empty pages, sections and
\* full_text whose metadata carries an error field with the failure description.
C14_DegradedAnalysis ==
    (Analyzed /\ pdf_file.state # "ok") =>
        /\ "raised" \notin DOMAIN analysis
        /\ DOMAIN analysis = {"metadata", "full_text", "pages", "sections"}
        /\ analysis.pages = <<>>
        /\ analysis.sections = <<>>
        /\ analysis.full_text = ""
        /\ "error" \in DOMAIN analysis.metadata
        /\ analysis.metadata.error = OpenError(pdf_file)
        /\ analysis.metadata.error # ""

\* a file that cannot be opened, and the analysis returned for it
C14_Witness ==
    /\ Analyzed
    /\ pdf_file.state = "corrupt"
    /\ analysis.metadata.error = "cannot open broken document"
    /\ analysis.metadata.filename = "bad.pdf"
    /\ analysis.pages = <<>> /\ analysis.sections = <<>>

BatchEnded == pc \in {"output_written", "raised"}

\* the documents of the batch whose text can be extracted
Extractable == {i \in 1..Len(config.documents) : config.documents[i].state = "ok"}

\* the results of config.documents[i] are in the written output
Contributes(i) ==
    /\ output_file # <<>>
    /\ \E k \in 1..Len(output_file[1].metadata.input_documents) :
          output_file[1].metadata.input_documents[k] = PathName(config.documents[i].path)

\* C15: in a batch processed in sequence, a failure while extracting one
\* document never prevents the documents after it from being processed: every
\* document that can be extracted contributes its results, wherever the
\* failing document stands in the batch.
C15_FailureIsolated ==
    BatchEnded => \A i \in Extractable : Contributes(i)

\* a batch that ended with an exception before its last document was reached
C15_Aborted ==
    /\ pc = "raised"
    /\ doc_index < Len(config.documents)
    /\ config.documents[doc_index].state = "corrupt"
    /\ \E i \in Extractable : i > doc_index
    /\ output_file = <<>>

-----------------------------------------------------------------------------
(* Totality on empty inputs *)

\* the section has neither content nor title
EmptySection(sec) == Get(sec, "content", "") = "" /\ Get(sec, "section_title", "") = ""

\* the page has no text
EmptyPage(page) == page.text = ""

\* the candidates the detectors made from the page
CandidatesOnPage(page) ==
    {k \in 1..Len(candidates) : candidates[k].page_number = page.page_number}

\* C16: classification, scoring and insight extraction are total on strings:
\* the empty role description is classified general, the empty task description
\* is classified general, a section with empty content and title gets relevance
\* 0.0, job alignment 0.0, no insights, no key concepts and priority low, and a
\* page with empty text yields no candidate from any of the three detectors.
C16_TotalOnEmpty ==
    /\ (RoleClassified /\ role_description = "") => detected_role = "general"
    /\ (JobClassified /\ task_description = "") => detected_task = "general"
    /\ PersonaDone =>
          \A k \in 1..Len(doc_analysis.sections) :
              EmptySection(doc_analysis.sections[k]) =>
                  LET augmented == persona_analysis.sections[k]
                  IN /\ augmented.persona_relevance_score = Rat(0, 1)
                     /\ augmented.job_alignment_score = Rat(0, 1)
                     /\ augmented.persona_insights = <<>>
                     /\ augmented.key_concepts = <<>>
                     /\ augmented.persona_priority = "low"
    /\ Detected =>
          \A p \in 1..Len(page_contents) :
              EmptyPage(page_contents[p]) => CandidatesOnPage(page_contents[p]) = {}

\* the empty role, the empty task and an empty section in one call
C16_Witness ==
    /\ PersonaDone
    /\ role_description = "" /\ detected_role = "general"
    /\ task_description = "" /\ detected_task = "general"
    /\ \E k \in 1..Len(doc_analysis.sections) :
          /\ doc_analysis.sections[k] = [content |-> "", section_title |-> ""]
          /\ persona_analysis.sections[k].persona_priority = "low"

\* a document with an empty page next to a page that yields candidates
EmptyPageDetected ==
    /\ Detected
    /\ \E p, q \in 1..Len(page_contents) :
          /\ EmptyPage(page_contents[p])
          /\ CandidatesOnPage(page_contents[q]) # {}

-----------------------------------------------------------------------------
(* Properties of the Analysis Aggregator *)

\* C17: for a document with zero sections _build_role_analysis_summary returns
\* average_relevance_score 0 without a division error, the three priority
\* counts 0 and an empty top_insights list.
C17_ZeroSections ==
    (PersonaDone /\ Len(Get(doc_analysis, "sections", <<>>)) = 0) =>
        LET summary == persona_analysis.metadata
        IN /\ "raised" \notin DOMAIN summary
           /\ summary.average_relevance_score = Rat(0, 1)
           /\ summary.high_priority_sections = 0
           /\ summary.medium_priority_sections = 0
           /\ summary.low_priority_sections = 0
           /\ summary.top_insights = <<>>

\* a document without sections processed for a classified persona
C17_Witness ==
    /\ PersonaDone
    /\ doc_analysis.sections = <<>>
    /\ persona_analysis.sections = <<>>
    /\ persona_analysis.metadata.persona_type = "manager"
    /\ persona_analysis.metadata.total_sections_analyzed = 0

-----------------------------------------------------------------------------
(* Frame of process_with_persona *)

PersonaFields ==
    {"persona_relevance_score", "persona_insights", "key_concepts", "persona_priority",
     "job_alignment_score"}

\* augmented repeats every field of section with its value and adds the five
\* persona fields
CopyOnAugment(section, augmented) ==
    /\ DOMAIN augmented = DOMAIN section \cup PersonaFields
    /\ \A field \in DOMAIN section : augmented[field] = section[field]

\* C18: process_with_persona never modifies the section records of the
\* DocumentAnalysis it is given: after the call every input section has exactly
\* the fields and values it had before, each returned Augmented Section is a
\* record of its own that repeats the input section's fields unchanged and adds
\* the five persona fields, and the returned sections are as many as the input
\* sections and in the same order.
C18_CopyOnAugment ==
    PersonaDone =>
        LET given == Get(doc_analysis, "sections", <<>>)
            returned == persona_analysis.sections
        IN /\ section_data = given
           /\ Len(returned) = Len(given)
           /\ \A k \in 1..Len(given) :
                 /\ CopyOnAugment(given[k], returned[k])
                 /\ DOMAIN section_data[k] # DOMAIN returned[k]

\* three different sections augmented in their order
C18_Witness ==
    /\ PersonaDone
    /\ Len(doc_analysis.sections) = 3
    /\ \A j, k \in 1..3 : j # k => doc_analysis.sections[j] # doc_analysis.sections[k]
    /\ \A k \in 1..3 : "section_id" \in DOMAIN doc_analysis.sections[k]
    /\ \A k \in 1..3 : persona_analysis.sections[k].section_id = doc_analysis.sections[k].section_id
    /\ section_data = doc_analysis.sections

-----------------------------------------------------------------------------
(* Length limits of the all-uppercase header pattern *)

\* a line made only of uppercase letters
UppercaseLetters(line) == line # "" /\ AllIn(line, 1, Len(line), UpperChars)

\* the Header Detector emitted, for the page, a candidate of this title
HeaderTitled(page_number, title) ==
    \E k \in 1..Len(candidates) :
        /\ candidates[k].detection_method = "header"
        /\ candidates[k].page_number = page_number
        /\ candidates[k].section_title = title

\* C19: a line made only of uppercase letters qualifies as an all-uppercase
\* header exactly when its length is between 6 and 40 characters inclusive; a
\* line of 41 or more uppercase letters is not a header candidate by this rule.
C19_SixToForty ==
    Detected =>
        \A p \in 1..Len(page_contents) :
            LET lines == split(page_contents[p].text, "\n")
            IN \A i \in 1..Len(lines) :
                  UppercaseLetters(lines[i]) =>
                      /\ (AllCapsPattern(lines[i]) # <<>>) <=>
                             (Len(lines[i]) >= 6 /\ Len(lines[i]) <= 40)
                      /\ Len(lines[i]) >= 41 =>
                             ~HeaderTitled(page_contents[p].page_number, lines[i])

\* a page whose first line is 41 uppercase letters: the line is the title of
\* a header candidate
C19_FortyOneLetters ==
    /\ Detected
    /\ Len(page_contents) = 1
    /\ page_contents[1].text = Caps(41) \o "\n" \o PlainLine
    /\ HeaderTitled(1, Caps(41))

-----------------------------------------------------------------------------
(* Content of a header candidate *)

\* the stripped lines at the positions of J from i on, in line order
RECURSIVE Picked(_, _, _)
Picked(lines, J, i) ==
    IF i > Len(lines) THEN <<>>
    ELSE (IF i \in J THEN <<strip(lines[i])>> ELSE <<>>) \o Picked(lines, J, i + 1)

\* the positions of the lines that _find_headers_in_page matches with this title
MatchedLines(lines, title) ==
    {h \in 1..Len(lines) :
        /\ _is_valid_line(strip(lines[h]))
        /\ _match_header_patterns(strip(lines[h])) = <<title>>}

\* content is made of lines that come after position h only
FromLinesAfter(lines, h, content) ==
    \E J \in SUBSET ((h + 1)..Len(lines)) : content = Join(Picked(lines, J, 1))

\* C20: the content the Header Detector gathers for a header is built only
\* from lines that come after the header's line on the same page: no line that
\* precedes the matched header line is part of the content, also when the
\* title text occurs inside an earlier line of the page.
C20_ContentAfterHeader ==
    Detected =>
        \A k \in 1..Len(candidates) :
            candidates[k].detection_method = "header" =>
                \A p \in 1..Len(page_contents) :
                    page_contents[p].page_number = candidates[k].page_number =>
                        LET lines == split(page_contents[p].text, "\n")
                        IN \E h \in MatchedLines(lines, candidates[k].section_title) :
                              FromLinesAfter(lines, h, candidates[k].content)

\* the title occurs inside the first line of the page, the header is the third
\* line, and the content starts with the second line
C20_EarlierMention ==
    /\ Detected
    /\ Len(page_contents) = 1
    /\ page_contents[1].text =
          "Read the FINANCIAL OVERVIEW first.\nIntro line before.\n" \o ScenarioAPage
    /\ HeaderCandidate(1, "FINANCIAL OVERVIEW",
                       "Intro line before. The quarterly revenue grew by 15%.")

-----------------------------------------------------------------------------
(* Empty lines in the gathering of header content *)

\* the lines that the gathering for this title goes through and keeps, the
\* empty ones left out
NonEmptyGathered(lines, title) ==
    SelectSeq(ContentLoop(lines, title, 1, FALSE, <<>>), LAMBDA l : l # "")

\* the titles that _find_headers_in_page matches on the lines
MatchedTitles(lines) ==
    {_match_header_patterns(strip(lines[h]))[1] :
        h \in {i \in 1..Len(lines) :
                 /\ _is_valid_line(strip(lines[i]))
                 /\ _match_header_patterns(strip(lines[i])) # <<>>}}

\* C21: during header content gathering empty lines are skipped: they add
\* nothing to the content and do not stop gathering, so the content is the
\* non-empty gathered lines joined by single spaces; a header followed only by
\* empty lines (or by nothing) gathers no content and its candidate is discarded.
C21_EmptyLinesSkipped ==
    Detected =>
        \A p \in 1..Len(page_contents) :
            LET lines == split(page_contents[p].text, "\n")
                page_number == page_contents[p].page_number
            IN \A title \in MatchedTitles(lines) :
                  IF NonEmptyGathered(lines, title) = <<>>
                  THEN ~HeaderTitled(page_number, title)
                  ELSE HeaderCandidate(page_number, title, Join(NonEmptyGathered(lines, title)))

\* an empty line between two text lines leaves two spaces in the content
C21_TwoSpaces ==
    /\ Detected
    /\ Len(page_contents) = 1
    /\ page_contents[1].text = "KEY FINDINGS\nfirst line of text\n\nsecond line of text"
    /\ HeaderCandidate(1, "KEY FINDINGS", "first line of text  second line of text")

\* a header followed by two empty lines and the next heading: a candidate
\* whose content is one space
C21_OnlyEmptyLines ==
    /\ Detected
    /\ Len(page_contents) = 1
    /\ page_contents[1].text = "KEY FINDINGS\n\n\nNEXT STEPS AHEAD\nsome text follows"
    /\ HeaderCandidate(1, "KEY FINDINGS", " ")

-----------------------------------------------------------------------------
(* Where the gathering of header content stops *)

\* the stripped lines h+1 .. j-1, joined by single spaces
AccumulatedBefore(lines, h, j) == Join([i \in 1..(j - 1 - h) |-> strip(lines[h + i])])

\* line j ends the gathering that started after line h: it is not empty and
\* it is an all-caps or numbered heading, or the content accumulated before it
\* is longer than max_section_length
StoppingLine(lines, h, j) ==
    /\ strip(lines[j]) # ""
    /\ \/ LooksLikeHeader(strip(lines[j]))
       \/ Len(AccumulatedBefore(lines, h, j)) > max_section_length

\* the position of the first stopping line after line h, Len(lines) + 1 if none
FirstStop(lines, h) ==
    LET stops == {j \in (h + 1)..Len(lines) : StoppingLine(lines, h, j)}
    IN IF stops = {} THEN Len(lines) + 1
       ELSE CHOOSE j \in stops : \A i \in stops : j <= i

\* content is made of lines that come before position j only
FromLinesBefore(lines, j, content) ==
    \E J \in SUBSET (1..(j - 1)) : content = Join(Picked(lines, J, 1))

\* C22: header content gathering stops at the first non-empty line after the
\* header that is an all-caps heading or a numbered heading, and that line is
\* not part of the content; it also stops at the first non-empty line reached
\* when the content accumulated so far, joined with single spaces, is longer
\* than 2000 characters. No line after the stopping line is ever included.
C22_StopsAtHeading ==
    Detected =>
        \A k \in 1..Len(candidates) :
            candidates[k].detection_method = "header" =>
                \A p \in 1..Len(page_contents) :
                    page_contents[p].page_number = candidates[k].page_number =>
                        LET lines == split(page_contents[p].text, "\n")
                        IN \A h \in MatchedLines(lines, candidates[k].section_title) :
                              FromLinesBefore(lines, FirstStop(lines, h), candidates[k].content)

\* the all-caps heading in the third line holds the title of the first: the
\* gathering goes past it and takes the fourth line
C22_PastHeading ==
    /\ Detected
    /\ Len(page_contents) = 1
    /\ page_contents[1].text =
          "KEY FINDINGS\ntext line a is here\nKEY FINDINGS REVISITED\ntext line b is here"
    /\ HeaderCandidate(1, "KEY FINDINGS", "text line a is here text line b is here")

\* gathering that stops at a numbered heading and at the length limit
C22_Stopped ==
    /\ Detected
    /\ Len(page_contents) = 1
    /\ \/ /\ page_contents[1].text =
                "KEY FINDINGS\nintro text line\n1. First Heading\nafter the stop\nmore"
          /\ HeaderCandidate(1, "KEY FINDINGS", "intro text line")
       \/ HeaderCandidate(1, "LONG SECTION", Para1000 \o " " \o Para1000 \o "x")

-----------------------------------------------------------------------------
(* Properties of the List Detector *)

\* another list item, or a non-empty line that does not start with an
\* uppercase letter
Continuation(line) ==
    _is_list_item(line) \/ (line # "" /\ Char(line, 1) \notin UpperChars)

\* the lines examined for the list item at s: s+1 .. s+5
Lookahead(lines, s) == {j \in (s + 1)..(s + 5) : j <= Len(lines)}

\* the lines appended for the list item at s: the non-empty lines of the
\* lookahead before the first non-empty line that is no continuation
Appended(lines, s) ==
    {j \in Lookahead(lines, s) :
        /\ strip(lines[j]) # ""
        /\ \A i \in Lookahead(lines, s) :
              (i <= j /\ strip(lines[i]) # "") => Continuation(strip(lines[i]))}

\* the lines of J from j on, each after a newline if it is a list item and
\* after a space otherwise
RECURSIVE AppendedText(_, _, _)
AppendedText(lines, J, j) ==
    IF j > Len(lines) THEN ""
    ELSE (IF j \in J
          THEN (IF _is_list_item(strip(lines[j])) THEN "\n" ELSE " ") \o strip(lines[j])
          ELSE "") \o AppendedText(lines, J, j + 1)

GatheredFor(lines, s) == strip(lines[s]) \o AppendedText(lines, Appended(lines, s), s + 1)

\* the contents of the list candidates for the list items from s on
RECURSIVE ListContentsFrom(_, _)
ListContentsFrom(lines, s) ==
    IF s > Len(lines) THEN <<>>
    ELSE (IF _is_list_item(strip(lines[s])) /\ Len(GatheredFor(lines, s)) > 30
          THEN <<GatheredFor(lines, s)>> ELSE <<>>) \o ListContentsFrom(lines, s + 1)

\* the contents of the candidates the List Detector emitted for the page
ListContentsOn(page_number) ==
    LET found == SelectSeq(candidates, LAMBDA c : c.detection_method = "list"
                                                   /\ c.page_number = page_number)
    IN [k \in 1..Len(found) |-> found[k].content]

\* C23: for a list-item line at index s of a page the gathered content starts
\* with that line and examines only lines s+1 .. s+5: a blank line is skipped
\* without stopping, a continuation line is appended (after a newline if it is
\* a list item, after a space otherwise), gathering stops at the first
\* non-empty line that is no continuation, no line beyond s+5 and no line after
\* the stopping line is included, and the candidate is discarded when the
\* gathered content has 30 characters or fewer.
C23_ListGathering ==
    Detected =>
        \A p \in 1..Len(page_contents) :
            ListContentsOn(page_contents[p].page_number) =
                ListContentsFrom(split(page_contents[p].text, "\n"), 1)

\* eight list lines with a blank line and a text line among them: the content
\* for the first item ends with the sixth line, the last items are discarded
C23_Witness ==
    /\ Detected
    /\ Len(page_contents) = 1
    /\ page_contents[1].text =
          "- item one is here\n- item two\n\nlower text\n- item three\n- item four\n- item five is beyond\n- item six"
    /\ Len(ListContentsOn(1)) = 5
    /\ ListContentsOn(1)[1] =
          "- item one is here\n- item two lower text\n- item three\n- item four"

-----------------------------------------------------------------------------
(* Properties of the Insight Extractor *)

Rule(triggers, observation) == [triggers |-> triggers, observation |-> observation]

\* the rules of a role category, in table order
RoleRules(role) ==
    CASE role = "researcher" ->
           <<Rule({"methodology", "method", "approach"}, "Research methodology identified"),
             Rule({"data", "dataset", "sample"}, "Data sources and datasets mentioned"),
             Rule({"result", "finding", "conclusion"}, "Research findings and results presented")>>
      [] role = "student" ->
           <<Rule({"concept", "principle", "theory"}, "Key concepts for learning identified"),
             Rule({"example", "illustration", "case"}, "Examples and illustrations available"),
             Rule({"exercise", "problem", "practice"}, "Practice materials and exercises found")>>
      [] role = "analyst" ->
           <<Rule({"trend", "pattern", "analysis"}, "Analytical insights and trends identified"),
             Rule({"metric", "kpi", "performance"}, "Performance metrics and KPIs mentioned"),
             Rule({"forecast", "prediction", "projection"}, "Forecasting and predictive information")>>
      [] OTHER -> <<>>

\* the rule of a job category
JobRules(job) ==
    CASE job = "review" ->
           <<Rule({"summary", "overview", "abstract"}, "Summary content suitable for review")>>
      [] job = "analyze" ->
           <<Rule({"comparison", "contrast", "versus"}, "Comparative analysis opportunities")>>
      [] OTHER -> <<>>

\* the observations of the rules that fire on the lowercased text, in order
Fired(rules, text) ==
    LET fired == SelectSeq(rules, LAMBDA r : \E t \in r.triggers : Contains(t, lower(text)))
    IN [k \in 1..Len(fired) |-> fired[k].observation]

NoDuplicates(list) == \A i, j \in 1..Len(list) : list[i] = list[j] => i = j

\* C24: the Insight Extractor appends one fixed observation for every rule
\* whose trigger keyword occurs in the lowercased section text, role rules
\* first in table order and then the job rule; role rules exist only for
\* researcher, student and analyst (three each) and job rules only for review
\* and analyze (one each), so an insight list has no duplicates and at most
\* four entries, and is empty for a role among teacher, manager, entrepreneur,
\* general combined with a job among learn, prepare, summarize, general.
C24_InsightRules ==
    PersonaDone =>
        \A k \in 1..Len(persona_analysis.sections) :
            LET text == Get(doc_analysis.sections[k], "content", "")
                insights == persona_analysis.sections[k].persona_insights
            IN /\ insights = Fired(RoleRules(detected_role), text)
                                \o Fired(JobRules(detected_task), text)
               /\ NoDuplicates(insights)
               /\ Len(insights) <= 4
               /\ (/\ detected_role \in {"teacher", "manager", "entrepreneur", "general"}
                   /\ detected_task \in {"learn", "prepare", "summarize", "general"})
                      => insights = <<>>

\* a section on which the three researcher rules and the review rule fire
C24_Witness ==
    /\ PersonaDone
    /\ detected_role = "researcher" /\ detected_task = "review"
    /\ \E k \in 1..Len(persona_analysis.sections) :
          persona_analysis.sections[k].persona_insights =
              <<"Research methodology identified", "Data sources and datasets mentioned",
                "Research findings and results presented", "Summary content suitable for review">>

-----------------------------------------------------------------------------
(* Properties of the key concepts *)

\* the position of the first occurrence of token in tokens
FirstAppearance(tokens, token) ==
    CHOOSE i \in 1..Len(tokens) : tokens[i] = token /\ \A j \in 1..(i - 1) : tokens[j] # token

\* C25: for every section text and role category, key_concepts has at most 10
\* entries, has no repeated entry, contains only tokens of the text that are
\* keywords of the role category and longer than 3 characters, and lists them
\* in the order of their first appearance in the text; it is empty for the
\* role category general.
C25_KeyConcepts ==
    PersonaDone =>
        \A k \in 1..Len(persona_analysis.sections) :
            LET tokens == findall_words(lower(Get(doc_analysis.sections[k], "content", "")))
                concepts == persona_analysis.sections[k].key_concepts
            IN /\ Len(concepts) <= 10
               /\ NoDuplicates(concepts)
               /\ \A i \in 1..Len(concepts) :
                     /\ InList(concepts[i], tokens)
                     /\ InList(concepts[i], TermsOf(role_terms, detected_role))
                     /\ Len(concepts[i]) > 3
               /\ \A i, j \in 1..Len(concepts) :
                     i < j => FirstAppearance(tokens, concepts[i]) < FirstAppearance(tokens, concepts[j])
               /\ detected_role = "general" => concepts = <<>>

\* a section with twelve researcher keywords, two of them twice: the first ten
\* are its key concepts
C25_Witness ==
    /\ PersonaDone
    /\ detected_role = "researcher"
    /\ \E k \in 1..Len(persona_analysis.sections) :
          /\ Get(doc_analysis.sections[k], "section_title", "") = "Research Notes"
          /\ persona_analysis.sections[k].key_concepts =
                <<"research", "study", "analysis", "data", "methodology", "experiment",
                  "hypothesis", "literature", "publication", "findings">>

-----------------------------------------------------------------------------
(* The PersonaAnalysis record *)

JobCategories == {"review", "learn", "analyze", "prepare", "summarize", "general"}

\* C26: in the PersonaAnalysis returned by process_with_persona, job_type is
\* the Job Category that the Job Classifier selected for the task description,
\* one of review, learn, analyze, prepare, summarize, general, in the same way
\* that persona_type is the Role Category selected by the Role Classifier.
C26_JobTypeIsCategory ==
    PersonaDone =>
        /\ persona_analysis.persona_type = detected_role
        /\ persona_analysis.job_type = detected_task
        /\ persona_analysis.job_type \in JobCategories

\* the task "review study" is classified review and job_type is the task
\* description
C26_JobTypeIsDescription ==
    /\ PersonaDone
    /\ task_description = "review study"
    /\ detected_task = "review"
    /\ persona_analysis.persona_type = detected_role
    /\ persona_analysis.job_type = "review study"
    /\ persona_analysis.job_context = "review study"

-----------------------------------------------------------------------------
(* Roles without insight rules *)

RolesWithoutRules == {"teacher", "manager", "entrepreneur", "general"}

\* C27: when the classified role category is teacher, manager, entrepreneur
\* or general, no section of the document is given persona_priority high,
\* whatever its text, relevance score and job category, because at most one
\* insight rule can fire for such a role and high requires two insights.
C27_NeverHigh ==
    (PersonaDone /\ detected_role \in RolesWithoutRules) =>
        \A k \in 1..Len(persona_analysis.sections) :
            /\ Len(persona_analysis.sections[k].persona_insights) <= 1
            /\ persona_analysis.sections[k].persona_priority # "high"

\* a section with relevance of at least 0.6 and the one insight of the job
\* rule, for the manager role: its priority is medium
C27_Witness ==
    /\ PersonaDone
    /\ detected_role = "manager"
    /\ \E k \in 1..Len(persona_analysis.sections) :
          /\ RatLE(Rat(6, 10), persona_analysis.sections[k].persona_relevance_score)
          /\ Len(persona_analysis.sections[k].persona_insights) = 1
          /\ persona_analysis.sections[k].persona_priority = "medium"

====
